---------------------------- MODULE Spec2Model ----------------------------
(***************************************************************************)
(* A model of cc-fi: the session record, its cache serialization, the      *)
(* deduplicator and the TTL cache manager (cc_fi/models/session.py,        *)
(* cc_fi/core/deduplicator.py, cc_fi/core/indexer.py, cc_fi/core/cache.py).*)
(*                                                                         *)
(* Text is a sequence of one-character strings, so that slicing, trimming  *)
(* and parsing are computed as the code computes them.                     *)
(***************************************************************************)
EXTENDS Integers, Sequences, FiniteSets, TLC

VARIABLES
    \* --- pure-function harness (SpecPure)
    input,      \* the list of records handed to the function under test
    op,         \* which function was applied ("none" before any)
    output,     \* what it returned
    \* --- filesystem and clock (Spec, SpecRace)
    files,      \* the session files under the projects directory, in rglob order
    blob,       \* the cache file: Absent, or its content as a sequence of blocks
    mtime,      \* st_mtime of the cache file
    now,        \* time.time()
    writable,   \* whether the cache location can be opened for writing
    \* --- the last run of the single instance (Spec)
    lastOp,     \* "none" | "env" | "get" | "invalidate" | "main" | "exit"
    force,      \* the force_rebuild argument of the last get
    before,     \* the cache file and its mtime as the last get found them
    path,       \* "hit" | "miss" | "loadfail": the branch the last get took
    outcome,    \* "returned" | "raised"
    result,     \* the list the last get returned
    \* --- two racing instances (SpecRace)
    pc,         \* per instance: its position in get_sessions_with_cache
    local,      \* per instance: the list it indexed and is saving
    off,        \* per instance: the file offset (in blocks) of its open handle
    ret,        \* per instance: the list it returned
    \* --- one run of the command line program (SpecCli)
    proc,       \* the run: its position in main, its arguments, what it printed
    \* --- history (Spec)
    saved       \* the list the last rebuild wrote to the cache file, while no
                \* invalidation and no other writer has touched the file since

vars == << input, op, output, files, blob, mtime, now, writable,
           lastOp, force, before, path, outcome, result, pc, local, off, ret,
           proc, saved >>

pureVars  == << input, op, output >>
fsVars    == << files, blob, mtime, now, writable >>
runVars   == << lastOp, force, before, path, outcome, result >>
raceVars  == << pc, local, off, ret >>
cliVars   == << proc >>
histVars  == << saved >>

---------------------------------------------------------------------------
(* Bounds of the model *)

MaxLen == 3        \* longest input list of the pure-function harness
MaxFiles == 2      \* most session files in the projects directory
MaxNow == 31       \* the clock stops advancing here

(* Program constants *)

CACHE_TTL_SECONDS == 30
FingerprintPrefixLen == 100

---------------------------------------------------------------------------
(* Text helpers *)

Rep(c, n) == [i \in 1..n |-> c]

Whitespace == {" ", "\t", "\n", "\r"}

RECURSIVE LStrip(_)
LStrip(s) ==
    IF s # <<>> /\ Head(s) \in Whitespace THEN LStrip(Tail(s)) ELSE s

RECURSIVE RStrip(_)
RStrip(s) ==
    IF s # <<>> /\ s[Len(s)] \in Whitespace
    THEN RStrip(SubSeq(s, 1, Len(s) - 1))
    ELSE s

\* str.strip()
Strip(s) == RStrip(LStrip(s))

\* s[:n]
Prefix(s, n) == SubSeq(s, 1, IF Len(s) < n THEN Len(s) ELSE n)

DigitChars == << "0", "1", "2", "3", "4", "5", "6", "7", "8", "9" >>

IsDigit(c) == \E d \in 1..10 : DigitChars[d] = c

DigitValue(c) == (CHOOSE d \in 1..10 : DigitChars[d] = c) - 1

\* n as exactly w decimal digits, zero padded (format "%0wd")
RECURSIVE Pad(_, _)
Pad(n, w) ==
    IF w = 0 THEN <<>> ELSE Append(Pad(n \div 10, w - 1), DigitChars[(n % 10) + 1])

AllDigits(s) == \A i \in 1..Len(s) : IsDigit(s[i])

RECURSIVE ParseInt(_)
ParseInt(s) ==
    IF s = <<>> THEN 0
    ELSE 10 * ParseInt(SubSeq(s, 1, Len(s) - 1)) + DigitValue(s[Len(s)])

\* index of the first occurrence of a character of cs in s, 0 when there is none
RECURSIVE FindAny(_, _, _)
FindAny(s, cs, i) ==
    IF i > Len(s) THEN 0
    ELSE IF s[i] \in cs THEN i
    ELSE FindAny(s, cs, i + 1)

---------------------------------------------------------------------------
(* datetime: the fields of a datetime value; tz is <<>> for a naive value
   and <<m>> for an aware one at UTC offset m minutes. *)

Naive == <<>>

DateTime(y, mo, d, h, mi, sec, us, tz) ==
    [year |-> y, month |-> mo, day |-> d, hour |-> h, minute |-> mi,
     second |-> sec, microsecond |-> us, tz |-> tz]

Abs(n) == IF n < 0 THEN -n ELSE n

\* datetime.isoformat(): YYYY-MM-DDTHH:MM:SS[.ffffff][+HH:MM]
Isoformat(t) ==
    Pad(t.year, 4) \o <<"-">> \o Pad(t.month, 2) \o <<"-">> \o Pad(t.day, 2)
    \o <<"T">>
    \o Pad(t.hour, 2) \o <<":">> \o Pad(t.minute, 2) \o <<":">> \o Pad(t.second, 2)
    \o (IF t.microsecond # 0 THEN <<".">> \o Pad(t.microsecond, 6) ELSE <<>>)
    \o (IF t.tz = Naive THEN <<>>
        ELSE <<IF t.tz[1] < 0 THEN "-" ELSE "+">>
             \o Pad(Abs(t.tz[1]) \div 60, 2) \o <<":">>
             \o Pad(Abs(t.tz[1]) % 60, 2))

Failed == [ok |-> FALSE]

\* hh[:mm[:ss[.fff[fff]]]] as <<hour, minute, second, microsecond>>
ParseHHMMSS(s) ==
    LET n == Len(s)
        two(i) == SubSeq(s, i, i + 1)
        shapeOk ==
            /\ n \in {2, 5, 8, 12, 15}
            /\ AllDigits(two(1))
            /\ n >= 5 => s[3] = ":" /\ AllDigits(two(4))
            /\ n >= 8 => s[6] = ":" /\ AllDigits(two(7))
            /\ n >= 12 => s[9] = "." /\ AllDigits(SubSeq(s, 10, n))
    IN  IF ~shapeOk THEN Failed
        ELSE [ok |-> TRUE,
              hour |-> ParseInt(two(1)),
              minute |-> IF n >= 5 THEN ParseInt(two(4)) ELSE 0,
              second |-> IF n >= 8 THEN ParseInt(two(7)) ELSE 0,
              microsecond |->
                  IF n = 15 THEN ParseInt(SubSeq(s, 10, 15))
                  ELSE IF n = 12 THEN 1000 * ParseInt(SubSeq(s, 10, 12))
                  ELSE 0]

\* datetime.fromisoformat(): the inverse of isoformat; ValueError otherwise
FromIsoformat(s) ==
    LET n == Len(s)
        dateOk ==
            /\ n >= 10
            /\ AllDigits(SubSeq(s, 1, 4)) /\ s[5] = "-"
            /\ AllDigits(SubSeq(s, 6, 7)) /\ s[8] = "-"
            /\ AllDigits(SubSeq(s, 9, 10))
            /\ ParseInt(SubSeq(s, 6, 7)) \in 1..12
            /\ ParseInt(SubSeq(s, 9, 10)) \in 1..31
        tstr == SubSeq(s, 12, n)
        minus == FindAny(tstr, {"-"}, 1)
        tzPos == IF minus # 0 THEN minus ELSE FindAny(tstr, {"+"}, 1)
        timestr == IF tzPos > 0 THEN SubSeq(tstr, 1, tzPos - 1) ELSE tstr
        tzstr == SubSeq(tstr, tzPos + 1, Len(tstr))
        tm == IF n <= 11 THEN [ok |-> n = 10, hour |-> 0, minute |-> 0,
                               second |-> 0, microsecond |-> 0]
              ELSE ParseHHMMSS(timestr)
        tzp == ParseHHMMSS(tzstr)
        tzOk == tzPos = 0 \/ (tzp.ok /\ Len(tzstr) = 5)
    IN  IF ~dateOk \/ ~tm.ok \/ ~tzOk THEN Failed
        ELSE IF tm.hour > 23 \/ tm.minute > 59 \/ tm.second > 59 THEN Failed
        ELSE [ok |-> TRUE,
              value |-> DateTime(
                  ParseInt(SubSeq(s, 1, 4)), ParseInt(SubSeq(s, 6, 7)),
                  ParseInt(SubSeq(s, 9, 10)),
                  tm.hour, tm.minute, tm.second, tm.microsecond,
                  IF tzPos = 0 THEN Naive
                  ELSE << (IF tstr[tzPos] = "-" THEN -1 ELSE 1)
                          * (60 * tzp.hour + tzp.minute) >>)]

---------------------------------------------------------------------------
(* pathlib.Path: the tuple of its parts (absolute paths); str(path) joins
   them with "/" and Path(text) splits on "/" dropping empty parts. *)

RECURSIVE PathStr(_)
PathStr(p) ==
    IF p = <<>> THEN <<>> ELSE <<"/">> \o Head(p) \o PathStr(Tail(p))

RECURSIVE SplitPath(_, _, _)
SplitPath(s, cur, acc) ==
    IF s = <<>> THEN (IF cur = <<>> THEN acc ELSE Append(acc, cur))
    ELSE IF Head(s) = "/"
         THEN SplitPath(Tail(s), <<>>, IF cur = <<>> THEN acc ELSE Append(acc, cur))
         ELSE SplitPath(Tail(s), Append(cur, Head(s)), acc)

PathOf(s) == SplitPath(s, <<>>, <<>>)

---------------------------------------------------------------------------
(* SessionData and its cache serialization *)

SessionData(id, cwd, project, branch, ts, first, last, count, fpath, lm, full) ==
    [session_id |-> id, cwd |-> cwd, project_name |-> project,
     git_branch |-> branch, timestamp |-> ts, first_message |-> first,
     last_message |-> last, message_count |-> count, file_path |-> fpath,
     last_modified |-> lm, full_content |-> full]

\* SessionData.content_fingerprint
content_fingerprint(s) ==
    << Isoformat(s.timestamp), Prefix(s.first_message, FingerprintPrefixLen), s.cwd >>

\* A plausible slip: the full_content of the serialized record is cut to the
\* fingerprint's prefix length.
to_dict_truncating(s) ==
    [session_id |-> s.session_id, cwd |-> s.cwd, project_name |-> s.project_name,
     git_branch |-> s.git_branch, timestamp |-> Isoformat(s.timestamp),
     first_message |-> s.first_message, last_message |-> s.last_message,
     message_count |-> s.message_count, file_path |-> PathStr(s.file_path),
     last_modified |-> s.last_modified,
     full_content |-> Prefix(s.full_content, FingerprintPrefixLen)]

\* SessionData.to_dict
to_dict(s) ==
    [session_id |-> s.session_id, cwd |-> s.cwd, project_name |-> s.project_name,
     git_branch |-> s.git_branch, timestamp |-> Isoformat(s.timestamp),
     first_message |-> s.first_message, last_message |-> s.last_message,
     message_count |-> s.message_count, file_path |-> PathStr(s.file_path),
     last_modified |-> s.last_modified, full_content |-> s.full_content]

RequiredKeys ==
    {"session_id", "cwd", "project_name", "git_branch", "timestamp",
     "first_message", "last_message", "message_count", "file_path",
     "last_modified"}

\* A plausible slip: full_content is read like the required keys.
from_dict_strict(d) ==
    IF ~((RequiredKeys \cup {"full_content"}) \subseteq DOMAIN d) THEN Failed
    ELSE LET ts == FromIsoformat(d.timestamp)
         IN  IF ~ts.ok THEN Failed
             ELSE [ok |-> TRUE,
                   value |-> SessionData(
                       d.session_id, d.cwd, d.project_name, d.git_branch,
                       ts.value, d.first_message, d.last_message,
                       d.message_count, PathOf(d.file_path), d.last_modified,
                       d.full_content)]

\* SessionData.from_dict: KeyError on a missing required key, ValueError on a
\* timestamp fromisoformat rejects; full_content defaults to "".
from_dict(d) ==
    IF ~(RequiredKeys \subseteq DOMAIN d) THEN Failed
    ELSE LET ts == FromIsoformat(d.timestamp)
         IN  IF ~ts.ok THEN Failed
             ELSE [ok |-> TRUE,
                   value |-> SessionData(
                       d.session_id, d.cwd, d.project_name, d.git_branch,
                       ts.value, d.first_message, d.last_message,
                       d.message_count, PathOf(d.file_path), d.last_modified,
                       IF "full_content" \in DOMAIN d THEN d.full_content
                       ELSE <<>>)]

---------------------------------------------------------------------------
(* SessionDeduplicator *)

\* position in seen_ids (a dict, in insertion order) of the key id, or 0
RECURSIVE IdIndex(_, _, _)
IdIndex(seen_ids, id, i) ==
    IF i > Len(seen_ids) THEN 0
    ELSE IF seen_ids[i].session_id = id THEN i
    ELSE IdIndex(seen_ids, id, i + 1)

\* position in seen_fingerprints (a dict, in insertion order) of the key fp, or 0
RECURSIVE FingerprintIndex(_, _, _)
FingerprintIndex(seen_fingerprints, fp, i) ==
    IF i > Len(seen_fingerprints) THEN 0
    ELSE IF content_fingerprint(seen_fingerprints[i]) = fp THEN i
    ELSE FingerprintIndex(seen_fingerprints, fp, i + 1)

\* A plausible slip: >= for >, so that a later record of equal age wins.
replaces_existing_on_tie(session, existing) ==
    session.last_modified >= existing.last_modified

\* deduplicator.py line 35: the newcomer replaces the kept record
replaces_existing(session, existing) ==
    session.last_modified > existing.last_modified

RECURSIVE by_session_id_loop(_, _)
by_session_id_loop(seen_ids, rest) ==
    IF rest = <<>> THEN seen_ids
    ELSE LET session == Head(rest)
             i == IdIndex(seen_ids, session.session_id, 1)
         IN  by_session_id_loop(
                 IF i = 0 THEN Append(seen_ids, session)
                 ELSE IF replaces_existing(session, seen_ids[i])
                      THEN [seen_ids EXCEPT ![i] = session]
                      ELSE seen_ids,
                 Tail(rest))

\* A plausible slip: duplicates are deleted from the list being iterated, so
\* the record after each deleted one is skipped unexamined.
RECURSIVE remove_while_iterating(_, _, _)
remove_while_iterating(lst, ids, i) ==
    IF i > Len(lst) THEN lst
    ELSE IF lst[i].session_id \in ids
         THEN remove_while_iterating(
                  SubSeq(lst, 1, i - 1) \o SubSeq(lst, i + 1, Len(lst)), ids, i + 1)
         ELSE remove_while_iterating(lst, ids \cup {lst[i].session_id}, i + 1)

deduplicate_by_session_id_in_place(sessions) ==
    remove_while_iterating(sessions, {}, 1)

\* SessionDeduplicator.deduplicate_by_session_id
deduplicate_by_session_id(sessions) == by_session_id_loop(<<>>, sessions)

RECURSIVE by_fingerprint_loop(_, _, _)
by_fingerprint_loop(seen_fingerprints, rest, keepLast) ==
    IF rest = <<>> THEN seen_fingerprints
    ELSE LET session == Head(rest)
             i == FingerprintIndex(seen_fingerprints,
                                   content_fingerprint(session), 1)
         IN  by_fingerprint_loop(
                 IF i = 0 THEN Append(seen_fingerprints, session)
                 ELSE IF keepLast THEN [seen_fingerprints EXCEPT ![i] = session]
                 ELSE seen_fingerprints,
                 Tail(rest), keepLast)

\* A plausible slip: the dict entry is overwritten, so the last record of a
\* fingerprint group is kept.
deduplicate_by_fingerprint_keep_last(sessions) ==
    by_fingerprint_loop(<<>>, sessions, TRUE)

\* SessionDeduplicator.deduplicate_by_fingerprint
deduplicate_by_fingerprint(sessions) == by_fingerprint_loop(<<>>, sessions, FALSE)

\* A plausible slip: "both" stops after the identity pass.
deduplicate_identity_only(sessions, strategy) ==
    IF strategy = "none" THEN sessions
    ELSE IF strategy = "fingerprint" THEN deduplicate_by_fingerprint(sessions)
    ELSE deduplicate_by_session_id(sessions)

\* SessionDeduplicator.deduplicate
deduplicate(sessions, strategy) ==
    IF strategy = "none" THEN sessions
    ELSE IF strategy = "session_id" THEN deduplicate_by_session_id(sessions)
    ELSE IF strategy = "fingerprint" THEN deduplicate_by_fingerprint(sessions)
    ELSE deduplicate_by_fingerprint(deduplicate_by_session_id(sessions))

DEDUPLICATION_STRATEGY == "both"

---------------------------------------------------------------------------
(* The cache file.  Its text is a sequence of blocks, the units in which it
   is written and parsed: the opening of the JSON object with its timestamp,
   one block per serialized record, and the closing.  Text that is no JSON
   is a junk block; "{}" is an object block (JSON, but no "sessions" key). *)

HeadBlock(ts) == [kind |-> "head", timestamp |-> ts]
RecBlock(d) == [kind |-> "rec", dict |-> d]
TailBlock == [kind |-> "tail"]
JunkBlock == [kind |-> "junk"]
ObjectBlock == [kind |-> "object"]

Absent == [exists |-> FALSE, readable |-> TRUE, content |-> <<>>]

\* json.dump(cache_data, f, indent=2)
JsonDump(cache_data) ==
    << HeadBlock(cache_data.timestamp) >>
    \o [i \in 1..Len(cache_data.sessions) |-> RecBlock(cache_data.sessions[i])]
    \o << TailBlock >>

\* json.load(f): JSONDecodeError unless the text is one JSON document
JsonLoad(content) ==
    LET n == Len(content)
    IN  IF n = 1 /\ content[1].kind = "object"
        THEN [ok |-> TRUE, keys |-> {}, sessions |-> <<>>]
        ELSE IF /\ n >= 2
                /\ content[1].kind = "head"
                /\ content[n].kind = "tail"
                /\ \A i \in 2..(n - 1) : content[i].kind = "rec"
        THEN [ok |-> TRUE, keys |-> {"timestamp", "sessions"},
              sessions |-> [i \in 1..(n - 2) |-> content[i + 1].dict]]
        ELSE Failed

\* A plausible slip: a blob that cannot be loaded is served as an empty list.
load_cache_lenient(b) ==
    LET data == JsonLoad(b.content)
        ok == b.readable /\ data.ok /\ "sessions" \in data.keys
        items == IF ok THEN [i \in 1..Len(data.sessions) |-> from_dict(data.sessions[i])]
                 ELSE <<>>
    IN  IF ok /\ \A i \in 1..Len(items) : items[i].ok
        THEN [ok |-> TRUE, value |-> [i \in 1..Len(items) |-> items[i].value]]
        ELSE [ok |-> TRUE, value |-> <<>>]

\* load_cache: the list, or an exception (open, json.load, KeyError, from_dict)
load_cache(b) ==
    IF ~b.readable THEN Failed
    ELSE LET data == JsonLoad(b.content)
         IN  IF ~data.ok \/ "sessions" \notin data.keys THEN Failed
             ELSE LET items == [i \in 1..Len(data.sessions) |->
                                    from_dict(data.sessions[i])]
                  IN  IF \E i \in 1..Len(items) : ~items[i].ok THEN Failed
                      ELSE [ok |-> TRUE,
                            value |-> [i \in 1..Len(items) |-> items[i].value]]

\* save_cache (lines 64-67): the text it writes
SavedContent(sessions, t) ==
    JsonDump([timestamp |-> t,
              sessions |-> [i \in 1..Len(sessions) |-> to_dict(sessions[i])]])

\* save_cache on a writable location: the file after open("w"), dump, close.
\* Opening an existing file keeps its mode; a new file is readable.
save_cache(sessions, b, t) ==
    [exists |-> TRUE,
     readable |-> IF b.exists THEN b.readable ELSE TRUE,
     content |-> SavedContent(sessions, t)]

\* A plausible slip: blank messages count as content (no strip).
has_content_unstripped(session) ==
    session.first_message # <<>> \/ session.last_message # <<>>

\* has_content
has_content(session) ==
    Strip(session.first_message) # <<>> \/ Strip(session.last_message) # <<>>

\* filter_empty_sessions
RECURSIVE filter_empty_sessions(_)
filter_empty_sessions(sessions) ==
    IF sessions = <<>> THEN <<>>
    ELSE (IF has_content(Head(sessions)) THEN << Head(sessions) >> ELSE <<>>)
         \o filter_empty_sessions(Tail(sessions))

\* insertion of x before the first kept record that is not newer than x: a
\* stable descending sort, as sorted(key=last_modified, reverse=True) is
RECURSIVE InsertByRecency(_, _)
InsertByRecency(x, sorted) ==
    IF sorted = <<>> THEN << x >>
    ELSE IF Head(sorted).last_modified <= x.last_modified THEN << x >> \o sorted
    ELSE << Head(sorted) >> \o InsertByRecency(x, Tail(sorted))

\* sort_sessions_by_recency
RECURSIVE sort_sessions_by_recency(_)
sort_sessions_by_recency(sessions) ==
    IF sessions = <<>> THEN <<>>
    ELSE InsertByRecency(Head(sessions), sort_sessions_by_recency(Tail(sessions)))

\* is_cache_valid with the age compared by <= (a file of age ttl still valid)
is_cache_valid_inclusive(b, modified, t, ttl_seconds) ==
    IF ~b.exists THEN FALSE ELSE t - modified <= ttl_seconds

\* is_cache_valid
is_cache_valid(b, modified, t, ttl_seconds) ==
    IF ~b.exists THEN FALSE ELSE t - modified < ttl_seconds

\* invalidate_cache without the exists() test: unlink of a missing file raises
invalidate_cache_unguarded(b) == [blob |-> Absent, raised |-> ~b.exists]

\* invalidate_cache: the file after the call, and whether the call raised
invalidate_cache(b) ==
    [blob |-> IF b.exists THEN Absent ELSE b, raised |-> FALSE]

---------------------------------------------------------------------------
(* Indexer.  A session file is what the parser makes of it: a record, or a
   failure (the parser raised). *)

ParsedFile(session) == [ok |-> TRUE, session |-> session]

RECURSIVE ParseAll(_)
ParseAll(session_files) ==
    IF session_files = <<>> THEN <<>>
    ELSE (IF Head(session_files).ok THEN << Head(session_files).session >> ELSE <<>>)
         \o ParseAll(Tail(session_files))

\* A plausible slip: the list is returned in discovery order.
index_sessions_unsorted(session_files) == ParseAll(session_files)

RECURSIVE ParseUntilFailure(_)
ParseUntilFailure(session_files) ==
    IF session_files = <<>> \/ ~Head(session_files).ok THEN <<>>
    ELSE << Head(session_files).session >> \o ParseUntilFailure(Tail(session_files))

\* A plausible slip: the first file the parser rejects ends the loop.
index_sessions_aborting(session_files) ==
    sort_sessions_by_recency(ParseUntilFailure(session_files))

\* index_sessions
index_sessions(session_files) == sort_sessions_by_recency(ParseAll(session_files))

---------------------------------------------------------------------------
(* The records the model draws its inputs from *)

IdA == << "a" >>
IdB == << "b" >>
CwdP == << "/", "w", "/", "p" >>
CwdQ == << "/", "w", "/", "q" >>
Branch == << "m", "a", "i", "n" >>

\* two long first messages that agree on their first 100 characters
LongA == Rep("x", FingerprintPrefixLen) \o << "a" >>
LongB == Rep("x", FingerprintPrefixLen) \o << "b" >>
Blank == << " ", "\t" >>
Hello == << "h", "i" >>
FullText == Rep("y", FingerprintPrefixLen + 20) \o << "\n", "z" >>

T1 == DateTime(2025, 11, 5, 10, 0, 0, 0, Naive)
T2 == DateTime(2025, 11, 5, 10, 0, 0, 250, << -330 >>)

SourcePath(id) == << << "p", "r", "o", "j" >>, id \o << ".", "j", "s", "o", "n", "l" >> >>

\* The content a record carries, by variant:
\*   1 the reference content          2 as 1, first message differs after 100 chars
\*   3 as 1, another timestamp        4 as 1, another cwd
\*   5 no content (blank first, empty last)   6 content in last_message only
\*   7 a short conversation           8 as 7, another cwd
Variant(id, lm, v) ==
    SessionData(
        id,
        IF v \in {4, 8} THEN CwdQ ELSE CwdP,
        IF v \in {4, 8} THEN << "q" >> ELSE << "p" >>,
        IF v = 3 THEN <<>> ELSE Branch,
        IF v = 3 THEN T2 ELSE T1,
        CASE v = 2 -> LongB [] v = 5 -> Blank [] v = 6 -> <<>>
          [] v \in {7, 8} -> Hello [] OTHER -> LongA,
        CASE v = 5 -> <<>> [] v = 6 -> << " ", "k", " " >> [] OTHER -> << "b", "y", "e" >>,
        IF v \in {5, 6} THEN v - 5 ELSE 5,
        SourcePath(id),
        lm,
        CASE v = 5 -> <<>> [] v \in {7, 8} -> Hello \o << "\n" >> \o Hello
          [] OTHER -> FullText)

Ids == {IdA, IdB}

\* <<last_modified, variant>>: two ages, ties between different contents
Shapes == { << 1, 1 >>, << 2, 2 >>, << 2, 3 >>, << 1, 4 >> }

\* inputs of the pure-function harness
Universe == { Variant(id, sh[1], sh[2]) : id \in Ids, sh \in Shapes }

Lists(S, n) == UNION { [1..k -> S] : k \in 0..n }

---------------------------------------------------------------------------
(* Values of the variables a specification does not use *)

Instances == {1, 2}

PureIdle == input = <<>> /\ op = "none" /\ output = <<>>

RunIdle ==
    /\ lastOp = "none" /\ force = FALSE /\ path = "none" /\ outcome = "none"
    /\ result = <<>> /\ before = << Absent, 0 >>

RaceIdle ==
    /\ pc = [i \in Instances |-> "idle"]
    /\ local = [i \in Instances |-> <<>>]
    /\ off = [i \in Instances |-> 0]
    /\ ret = [i \in Instances |-> <<>>]

FsIdle ==
    /\ files = <<>> /\ blob = Absent /\ mtime = 0 /\ now = 0 /\ writable = TRUE

\* no run of main
NoRun ==
    [pc |-> "idle", argv |-> <<>>, mode |-> "none", rebuild |-> FALSE,
     search |-> <<>>, preview |-> <<>>, fzf_installed |-> FALSE,
     columns |-> 0, fzf_input |-> <<>>,
     user |-> [act |-> "none", returncode |-> 0, item |-> 0, ansi |-> FALSE],
     exit |-> 0, stdout |-> <<>>, stderr |-> <<>>]

CliIdle == proc = NoRun

\* no rebuild has written the cache file
NoSaved == [live |-> FALSE, sessions |-> <<>>]

HistIdle == saved = NoSaved

---------------------------------------------------------------------------
(* SpecPure: the deduplicator and the cache serialization applied to every
   list of at most MaxLen records of Universe. *)

InitPure ==
    /\ input \in Lists(Universe, MaxLen)
    /\ op = "none"
    /\ output = <<>>
    /\ FsIdle /\ RunIdle /\ RaceIdle /\ CliIdle /\ HistIdle

Applied(name, value) ==
    /\ op = "none"
    /\ op' = name
    /\ output' = value
    /\ UNCHANGED << input, fsVars, runVars, raceVars, cliVars, histVars >>

ApplyBySessionId == Applied("by_session_id", deduplicate_by_session_id(input))

ApplyByFingerprint == Applied("by_fingerprint", deduplicate_by_fingerprint(input))

Strategies == {"none", "session_id", "fingerprint", "both", "bogus"}

ApplyDeduplicate ==
    \E strategy \in Strategies : Applied(strategy, deduplicate(input, strategy))

ApplyTwice ==
    Applied("twice", deduplicate(deduplicate(input, "both"), "both"))

\* load_cache(save_cache(input)) on a fresh, writable location
ApplyRoundTrip ==
    LET loaded == load_cache(save_cache(input, Absent, 0))
    IN  IF loaded.ok THEN Applied("roundtrip", loaded.value)
        ELSE Applied("roundtrip_raised", <<>>)

NextPure ==
    \/ ApplyBySessionId
    \/ ApplyByFingerprint
    \/ ApplyDeduplicate
    \/ ApplyTwice
    \/ ApplyRoundTrip

SpecPure == InitPure /\ [][NextPure]_vars

---------------------------------------------------------------------------
(* Properties of the deduplicator and of the serialization (SpecPure) *)

\* The fingerprint as the data model states it: the point in time itself, the
\* first 100 characters of first_message, and cwd.
Fingerprint(s) ==
    << s.timestamp, SubSeq(s.first_message, 1, IF Len(s.first_message) < 100
                                                THEN Len(s.first_message) ELSE 100),
       s.cwd >>

Positions(seq) == 1..Len(seq)

NoSharedSessionId(seq) ==
    \A i, j \in Positions(seq) : i < j => seq[i].session_id # seq[j].session_id

NoSharedFingerprint(seq) ==
    \A i, j \in Positions(seq) : i < j => Fingerprint(seq[i]) # Fingerprint(seq[j])

\* C5: the output of deduplicate(S, both) holds no two records with the same
\* session_id and no two records with the same content fingerprint.
C5_BothLeavesNoDuplicates ==
    op = "both" => NoSharedSessionId(output) /\ NoSharedFingerprint(output)

\* C5's case: an input with a session_id duplicate and a fingerprint duplicate
\* under different ids, of which several records survive.
C5_Witness ==
    /\ op = "both"
    /\ Len(output) >= 2
    /\ \E i, j \in Positions(input) :
           i < j /\ input[i].session_id = input[j].session_id
    /\ \E i, j \in Positions(input) :
           /\ i < j
           /\ input[i].session_id # input[j].session_id
           /\ Fingerprint(input[i]) = Fingerprint(input[j])

Min(S) == CHOOSE x \in S : \A y \in S : x <= y
Max(S) == CHOOSE x \in S : \A y \in S : x >= y

IdGroup(seq, id) == { i \in Positions(seq) : seq[i].session_id = id }

\* the first position, among those of the group, with the group's greatest
\* last_modified
FirstNewest(seq, id) ==
    LET newest == Max({ seq[i].last_modified : i \in IdGroup(seq, id) })
    IN  Min({ i \in IdGroup(seq, id) : seq[i].last_modified = newest })

\* C6: identity deduplication keeps exactly one record per session_id of the
\* input, the one with the greatest last_modified of its group, and among
\* several with the greatest the one appearing first in the input.
C6_IdentityKeepsFirstNewest ==
    op = "by_session_id" =>
        /\ \A j \in Positions(output) : IdGroup(input, output[j].session_id) # {}
        /\ \A i \in Positions(input) :
               LET id == input[i].session_id
               IN  /\ Cardinality(IdGroup(output, id)) = 1
                   /\ \A j \in IdGroup(output, id) :
                          output[j] = input[FirstNewest(input, id)]

\* C6's case: a group whose greatest last_modified is shared by two different
\* records, after an older record of the same group.
C6_Witness ==
    /\ op = "by_session_id"
    /\ \E i, j, k \in Positions(input) :
           /\ i < j /\ j < k
           /\ input[i].session_id = input[j].session_id
           /\ input[j].session_id = input[k].session_id
           /\ input[i].last_modified < input[j].last_modified
           /\ input[j].last_modified = input[k].last_modified
           /\ input[j] # input[k]
           /\ output = << input[j] >>

FingerprintGroup(seq, fp) == { i \in Positions(seq) : Fingerprint(seq[i]) = fp }

\* C7: fingerprint deduplication keeps exactly one record per fingerprint of
\* the input, the one appearing first in the input whatever its
\* last_modified; a record is dropped only for an earlier record with the
\* same timestamp, the same cwd and the same first 100 characters.
C7_FingerprintKeepsFirst ==
    op = "by_fingerprint" =>
        /\ \A j \in Positions(output) :
               FingerprintGroup(input, Fingerprint(output[j])) # {}
        /\ \A i \in Positions(input) :
               LET fp == Fingerprint(input[i])
               IN  /\ Cardinality(FingerprintGroup(output, fp)) = 1
                   /\ \A j \in FingerprintGroup(output, fp) :
                          output[j] = input[Min(FingerprintGroup(input, fp))]
        /\ \A i \in Positions(input) :
               \/ \E j \in Positions(output) : output[j] = input[i]
               \/ \E k \in 1..(i - 1) :
                      /\ input[k].timestamp = input[i].timestamp
                      /\ input[k].cwd = input[i].cwd
                      /\ Prefix(input[k].first_message, 100)
                             = Prefix(input[i].first_message, 100)

\* C7's case: a later, more recently modified record with the same
\* fingerprint is dropped, and records differing only in timestamp or cwd
\* from the kept one stay.
C7_Witness ==
    /\ op = "by_fingerprint"
    /\ Len(input) = 3 /\ Len(output) = 2
    /\ Fingerprint(input[1]) = Fingerprint(input[2])
    /\ input[1].last_modified < input[2].last_modified
    /\ input[1] # input[2]
    /\ output[1] = input[1]
    /\ output[2] = input[3]
    /\ Prefix(input[3].first_message, 100) = Prefix(input[1].first_message, 100)

\* C8: deduplicating the output of deduplicate(S, both) again with strategy
\* both changes nothing: the same records in the same order.
C8_BothIsIdempotent ==
    op = "twice" => output = deduplicate(input, "both")

\* C8's case: the first application removed records and left several.
C8_Witness ==
    /\ op = "twice"
    /\ Len(output) >= 2
    /\ Len(output) < Len(input)

Attributes ==
    {"session_id", "cwd", "project_name", "git_branch", "timestamp",
     "first_message", "last_message", "message_count", "file_path",
     "last_modified", "full_content"}

---------------------------------------------------------------------------
(* Spec: one instance at a time.  Each run of get_sessions_with_cache or of
   invalidate_cache is one step; between runs the clock advances, session
   files come and go, the cache location loses or regains its write
   permission, and the cache file may be replaced by content this build did
   not write (corrupt, unreadable, or from an older format). *)

Malformed == [ok |-> FALSE, session |-> Variant(IdA, 1, 7)]

\* what the projects directory may hold
SourceFiles ==
    { ParsedFile(Variant(IdA, 1, 7)),    \* a session
      ParsedFile(Variant(IdA, 2, 7)),    \* the same session, written later
      ParsedFile(Variant(IdB, 1, 7)),    \* the same content under another id
      ParsedFile(Variant(IdB, 2, 8)),    \* another session, newer
      ParsedFile(Variant(IdB, 1, 5)),    \* a session with no content
      Malformed }                        \* a file the parser rejects

Without(d, key) == [k \in (DOMAIN d) \ {key} |-> d[k]]

\* cache contents this build did not write
ForeignContents ==
    { << JunkBlock >>,
      << ObjectBlock >>,
      << HeadBlock(0), RecBlock(Without(to_dict(Variant(IdA, 1, 7)), "cwd")),
         TailBlock >>,
      << HeadBlock(0),
         RecBlock([to_dict(Variant(IdA, 1, 7)) EXCEPT !.timestamp = << "n", "o" >>]),
         TailBlock >>,
      << HeadBlock(0),
         RecBlock(Without(to_dict(Variant(IdA, 1, 7)), "full_content")),
         RecBlock(to_dict(Variant(IdA, 1, 7))),
         RecBlock(to_dict(Variant(IdB, 1, 5))),
         RecBlock(to_dict(Variant(IdB, 2, 8))),
         TailBlock >> }

\* the rebuild of get_sessions_with_cache (lines 138-144)
Rebuild(session_files) ==
    filter_empty_sessions(
        deduplicate(index_sessions(session_files), DEDUPLICATION_STRATEGY))

Init ==
    /\ files \in Lists(SourceFiles, MaxFiles)
    /\ blob = Absent
    /\ mtime = 0
    /\ now = 0
    /\ writable = TRUE
    /\ RunIdle /\ PureIdle /\ RaceIdle /\ CliIdle /\ HistIdle

\* what every step of the environment does to the record of the last run
EnvStep ==
    /\ lastOp' = "env"
    /\ force' = FALSE
    /\ before' = << Absent, 0 >>
    /\ path' = "none"
    /\ outcome' = "none"
    /\ result' = <<>>
    /\ UNCHANGED << pureVars, raceVars, cliVars >>

Tick ==
    \E d \in {CACHE_TTL_SECONDS - 1, CACHE_TTL_SECONDS, CACHE_TTL_SECONDS + 1} :
        /\ now + d <= MaxNow
        /\ now' = now + d
        /\ UNCHANGED << files, blob, mtime, writable, histVars >>
        /\ EnvStep

\* a session file appears (a new session, or a further copy of one)
SourceChange ==
    /\ Len(files) < MaxFiles
    /\ \E f \in SourceFiles : files' = Append(files, f)
    /\ UNCHANGED << blob, mtime, now, writable, histVars >>
    /\ EnvStep

SetWritable ==
    /\ writable' = ~writable
    /\ UNCHANGED << files, blob, mtime, now, histVars >>
    /\ EnvStep

\* another program leaves a file at the cache path: one this user can read,
\* or one whose mode forbids reading
ForeignWrite ==
    /\ \/ \E content \in ForeignContents :
              blob' = [exists |-> TRUE, readable |-> TRUE, content |-> content]
       \/ blob' = [exists |-> TRUE, readable |-> FALSE, content |-> << JunkBlock >>]
    /\ mtime' = now
    /\ saved' = NoSaved
    /\ UNCHANGED << files, now, writable >>
    /\ EnvStep

\* A plausible slip: the rebuild caches the index as discovered, before
\* deduplication and filtering.
get_sessions_with_cache_caching_index(force_rebuild, b, modified, t, session_files, can_write) ==
    LET tryCache == ~force_rebuild
                    /\ is_cache_valid(b, modified, t, CACHE_TTL_SECONDS)
        loaded == IF tryCache THEN load_cache(b) ELSE Failed
        sessions == Rebuild(session_files)
    IN  IF loaded.ok
        THEN [path |-> "hit", raised |-> FALSE,
              sessions |-> sort_sessions_by_recency(filter_empty_sessions(loaded.value)),
              blob |-> b, mtime |-> modified]
        ELSE IF can_write
        THEN [path |-> IF tryCache THEN "loadfail" ELSE "miss", raised |-> FALSE,
              sessions |-> sessions,
              blob |-> save_cache(index_sessions(session_files), b, t), mtime |-> t]
        ELSE [path |-> IF tryCache THEN "loadfail" ELSE "miss", raised |-> TRUE,
              sessions |-> <<>>, blob |-> b, mtime |-> modified]

\* A plausible slip: a hit deduplicates the cached list and writes it back.
get_sessions_with_cache_refreshing(force_rebuild, b, modified, t, session_files, can_write) ==
    LET tryCache == ~force_rebuild
                    /\ is_cache_valid(b, modified, t, CACHE_TTL_SECONDS)
        loaded == IF tryCache THEN load_cache(b) ELSE Failed
        cached == filter_empty_sessions(
                      deduplicate(sort_sessions_by_recency(loaded.value),
                                  DEDUPLICATION_STRATEGY))
        sessions == Rebuild(session_files)
    IN  IF loaded.ok
        THEN [path |-> "hit", raised |-> FALSE, sessions |-> cached,
              blob |-> IF can_write THEN save_cache(cached, b, t) ELSE b,
              mtime |-> IF can_write THEN t ELSE modified]
        ELSE IF can_write
        THEN [path |-> IF tryCache THEN "loadfail" ELSE "miss", raised |-> FALSE,
              sessions |-> sessions,
              blob |-> save_cache(sessions, b, t), mtime |-> t]
        ELSE [path |-> IF tryCache THEN "loadfail" ELSE "miss", raised |-> TRUE,
              sessions |-> <<>>, blob |-> b, mtime |-> modified]

\* get_sessions_with_cache(force_rebuild) on a cache file b last modified at
\* modified, at time t, over the session files, with the cache location
\* writable or not: the branch taken, whether the call raised, the list
\* returned, and the cache file and its mtime afterwards
get_sessions_with_cache(force_rebuild, b, modified, t, session_files, can_write) ==
    LET tryCache == ~force_rebuild
                    /\ is_cache_valid(b, modified, t, CACHE_TTL_SECONDS)
        loaded == IF tryCache THEN load_cache(b) ELSE Failed
        sessions == Rebuild(session_files)
    IN  IF loaded.ok
        THEN [path |-> "hit", raised |-> FALSE,
              sessions |-> sort_sessions_by_recency(filter_empty_sessions(loaded.value)),
              blob |-> b, mtime |-> modified]
        ELSE IF can_write
        THEN [path |-> IF tryCache THEN "loadfail" ELSE "miss", raised |-> FALSE,
              sessions |-> sessions,
              blob |-> save_cache(sessions, b, t), mtime |-> t]
        ELSE \* save_cache raises OSError; nothing catches it
             [path |-> IF tryCache THEN "loadfail" ELSE "miss", raised |-> TRUE,
              sessions |-> <<>>, blob |-> b, mtime |-> modified]

\* one call of get_sessions_with_cache
GetWithCache ==
    \E force_rebuild \in BOOLEAN :
        LET got == get_sessions_with_cache(force_rebuild, blob, mtime, now,
                                           files, writable)
        IN  /\ lastOp' = "get"
            /\ force' = force_rebuild
            /\ before' = << blob, mtime >>
            /\ path' = got.path
            /\ outcome' = IF got.raised THEN "raised" ELSE "returned"
            /\ result' = got.sessions
            /\ blob' = got.blob
            /\ mtime' = got.mtime
            /\ saved' = IF got.path = "hit" \/ got.raised THEN saved
                         ELSE [live |-> TRUE, sessions |-> got.sessions]
            /\ UNCHANGED << files, now, writable, pureVars, raceVars, cliVars >>

\* invalidate_cache()
Invalidate ==
    /\ lastOp' = "invalidate"
    /\ blob' = invalidate_cache(blob).blob
    /\ force' = FALSE
    /\ before' = << blob, mtime >>
    /\ path' = "none"
    /\ outcome' = IF invalidate_cache(blob).raised THEN "raised" ELSE "returned"
    /\ result' = <<>>
    /\ saved' = NoSaved
    /\ UNCHANGED << files, mtime, now, writable, pureVars, raceVars, cliVars >>

Next ==
    \/ Tick
    \/ SourceChange
    \/ SetWritable
    \/ ForeignWrite
    \/ GetWithCache
    \/ Invalidate

Spec == Init /\ [][Next]_vars

---------------------------------------------------------------------------
(* Properties of get_sessions_with_cache (Spec) *)

Returned == lastOp = "get" /\ outcome = "returned"

NonIncreasing(seq) ==
    \A i \in 1..(Len(seq) - 1) : seq[i].last_modified >= seq[i + 1].last_modified

\* C1: every list get_sessions_with_cache returns, from the cache or from a
\* rebuild, is in non-increasing last_modified order.
C1_ReturnedMostRecentFirst == Returned => NonIncreasing(result)

\* C1's case: a hit on a cache file whose records are stored oldest first.
C1_Witness ==
    /\ Returned /\ path = "hit"
    /\ Len(result) >= 2
    /\ result[1].last_modified > result[2].last_modified
    /\ LET cached == load_cache(before[1]).value
       IN  cached[1].last_modified < cached[Len(cached)].last_modified

\* The last run rebuilt: it was forced, or found no cache file within its TTL,
\* or found one that cannot be loaded.
CacheInTtl == before[1].exists /\ now - before[2] < 30

Unloadable(b) ==
    \/ ~b.readable
    \/ ~JsonLoad(b.content).ok
    \/ "sessions" \notin JsonLoad(b.content).keys
    \/ \E i \in 1..Len(b.content) :
           b.content[i].kind = "rec" /\ ~(RequiredKeys \subseteq DOMAIN b.content[i].dict)

\* C2 (as claimed; the code violates it): a rebuild whose save fails because
\* the cache location is not writable still returns the rebuilt list.
C2_SaveFailureStillReturns ==
    (lastOp = "get" /\ path \in {"miss", "loadfail"} /\ ~writable) =>
        outcome = "returned" /\ result = Rebuild(files)

\* C3: a run without force_rebuild that finds the cache file within its TTL
\* but not loadable (no JSON, no "sessions" key, a record without a required
\* field, or unreadable) does not raise: with the cache location writable it
\* returns the rebuilt list and rewrites the file with it.
C3_LoadFailureRebuilds ==
    (lastOp = "get" /\ ~force /\ CacheInTtl /\ Unloadable(before[1]) /\ writable) =>
        /\ outcome = "returned"
        /\ result = Rebuild(files)
        /\ blob.exists
        /\ blob.content = SavedContent(Rebuild(files), now)
        /\ mtime = now

\* C3's case: an unreadable cache file within its TTL, and session files of
\* which the rebuild keeps some.
C3_Witness ==
    /\ lastOp = "get" /\ ~force /\ CacheInTtl /\ writable
    /\ ~before[1].readable
    /\ now - before[2] = 29
    /\ Len(result) >= 1
    /\ Len(result) < Len(files)

NoContent(s) == Strip(s.first_message) = <<>> /\ Strip(s.last_message) = <<>>

\* C9: no returned list, from the cache or from a rebuild, holds a record
\* whose first_message and last_message are both empty after trimming.
C9_NoEmptyRecordReturned ==
    Returned => \A i \in 1..Len(result) : ~NoContent(result[i])

\* C9's case: a rebuild in which a record without content survived
\* deduplication, next to one with content.
C9_Witness ==
    /\ Returned /\ path = "miss"
    /\ Len(result) >= 1
    /\ LET kept == deduplicate(index_sessions(files), "both")
       IN  \E i \in 1..Len(kept) : NoContent(kept[i])

\* C11: is_cache_valid is true exactly when the cache file exists and
\* now - st_mtime < ttl: a run without force_rebuild tries the cache file
\* (path hit or loadfail) exactly then, so a file modified at t is valid at
\* t + ttl - 1, not valid at t + ttl nor at t + ttl + 1, and never valid when
\* absent.
C11_ValidExactlyWithinTtl ==
    (lastOp = "get" /\ ~force) =>
        /\ (path # "miss") <=> (before[1].exists /\ now - before[2] < 30)
        /\ (before[1].exists /\ now - before[2] = 30 - 1) => path # "miss"
        /\ (before[1].exists /\ now - before[2] \in {30, 30 + 1}) => path = "miss"
        /\ ~before[1].exists => path = "miss"

\* C11's case: a cache file of age ttl - 1 is served.
C11_Witness ==
    /\ lastOp = "get" /\ ~force
    /\ before[1].exists /\ now - before[2] = 29
    /\ path = "hit"

\* the boundary itself: a cache file of age ttl, or ttl + 1, is not tried
C11_ReachesTtl ==
    lastOp = "get" /\ ~force /\ before[1].exists /\ now - before[2] = 30

C11_ReachesPastTtl ==
    lastOp = "get" /\ ~force /\ before[1].exists /\ now - before[2] = 31

\* C12: invalidate_cache never raises and leaves no cache file, whether it
\* found one or not, and a run without force_rebuild that comes right after
\* it rebuilds.
C12_InvalidateLeavesNoBlob ==
    [][ /\ (lastOp' = "invalidate") => (~blob'.exists /\ outcome' = "returned")
        /\ (lastOp = "invalidate" /\ lastOp' = "get") => path' = "miss"
      ]_vars

\* C12's case: invalidate_cache ran on a cache file within its TTL that a
\* rebuild had written, and removed it.
C12_Witness ==
    /\ lastOp = "invalidate"
    /\ before[1].exists /\ load_cache(before[1]).ok
    /\ now - before[2] < 30
    /\ ~blob.exists

\* invalidate_cache ran twice in a row: the second found no file
C12_ReachesAbsent ==
    lastOp = "invalidate" /\ ~before[1].exists /\ ~blob.exists

---------------------------------------------------------------------------
(* SpecRace: two instances run get_sessions_with_cache against the same
   cache file, step by step.  save_cache opens the file with mode "w" (which
   truncates it) and then writes the text through its own handle, block by
   block, each handle at its own offset. *)

\* write(2) of one block at block position k of the file
WriteAt(content, k, block) ==
    IF k <= Len(content) THEN [content EXCEPT ![k] = block]
    ELSE content \o [i \in 1..(k - 1 - Len(content)) |-> JunkBlock] \o << block >>

InitRace ==
    /\ files \in Lists(SourceFiles, MaxFiles)
    /\ blob \in {Absent, save_cache(Rebuild(files), Absent, 0)}
    /\ mtime = 0
    /\ now = 0
    /\ writable = TRUE
    /\ RaceIdle /\ PureIdle /\ RunIdle /\ CliIdle /\ HistIdle

RaceFrame == UNCHANGED << pureVars, runVars, cliVars, histVars, now, writable >>

\* lines 127-130: the instance starts and tests the cache file
RaceStart(i) ==
    /\ pc[i] = "idle"
    /\ \E force_rebuild \in BOOLEAN :
           pc' = [pc EXCEPT ![i] =
                      IF ~force_rebuild
                         /\ is_cache_valid(blob, mtime, now, CACHE_TTL_SECONDS)
                      THEN "load" ELSE "index"]
    /\ UNCHANGED << files, blob, mtime, local, off, ret >>
    /\ RaceFrame

\* lines 131-136: load, filter, sort and return, or fall through
RaceLoad(i) ==
    /\ pc[i] = "load"
    /\ LET loaded == load_cache(blob)
       IN  IF loaded.ok
           THEN /\ ret' = [ret EXCEPT ![i] =
                               sort_sessions_by_recency(
                                   filter_empty_sessions(loaded.value))]
                /\ pc' = [pc EXCEPT ![i] = "served"]
           ELSE /\ pc' = [pc EXCEPT ![i] = "index"]
                /\ UNCHANGED ret
    /\ UNCHANGED << files, blob, mtime, local, off >>
    /\ RaceFrame

\* lines 138-144: index, deduplicate, drop the empty records
RaceIndex(i) ==
    /\ pc[i] = "index"
    /\ local' = [local EXCEPT ![i] = Rebuild(files)]
    /\ pc' = [pc EXCEPT ![i] = "open"]
    /\ UNCHANGED << files, blob, mtime, off, ret >>
    /\ RaceFrame

\* save_cache line 71: open(cache_path, "w") truncates the file
RaceOpen(i) ==
    /\ pc[i] = "open"
    /\ blob' = [exists |-> TRUE,
                readable |-> IF blob.exists THEN blob.readable ELSE TRUE,
                content |-> <<>>]
    /\ mtime' = now
    /\ off' = [off EXCEPT ![i] = 0]
    /\ pc' = [pc EXCEPT ![i] = "write"]
    /\ UNCHANGED << files, local, ret >>
    /\ RaceFrame

\* save_cache lines 72-74: the next block of the text goes to the file; after
\* the last one the file is closed and the list returned (line 146)
RaceWrite(i) ==
    /\ pc[i] = "write"
    /\ LET text == SavedContent(local[i], now)
           k == off[i] + 1
       IN  /\ blob' = [blob EXCEPT !.content = WriteAt(@, k, text[k])]
           /\ off' = [off EXCEPT ![i] = k]
           /\ IF k = Len(text)
              THEN /\ pc' = [pc EXCEPT ![i] = "saved"]
                   /\ ret' = [ret EXCEPT ![i] = local[i]]
              ELSE UNCHANGED << pc, ret >>
    /\ mtime' = now
    /\ UNCHANGED << files, local >>
    /\ RaceFrame

\* a session file appears while the instances run
RaceSourceChange ==
    /\ Len(files) < MaxFiles
    /\ \E f \in SourceFiles : files' = Append(files, f)
    /\ UNCHANGED << blob, mtime, raceVars >>
    /\ RaceFrame

NextRace ==
    \/ \E i \in Instances : RaceStart(i)
    \/ \E i \in Instances : RaceLoad(i)
    \/ \E i \in Instances : RaceIndex(i)
    \/ \E i \in Instances : RaceOpen(i)
    \/ \E i \in Instances : RaceWrite(i)
    \/ RaceSourceChange

SpecRace == InitRace /\ [][NextRace]_vars

Rebuilding(i) == pc[i] \in {"open", "write", "saved"}

\* C4 (as claimed; the code violates it): while two instances rebuild
\* concurrently, from the first open of the cache file on, the file holds a
\* snapshot that load accepts, without duplicate session_ids or fingerprints,
\* which is the text one of the two instances saves; so it does in particular
\* when both have finished.
C4_BlobAlwaysAValidSnapshot ==
    ((\A i \in Instances : Rebuilding(i))
        /\ (\E i \in Instances : pc[i] \in {"write", "saved"})) =>
        /\ blob.exists
        /\ load_cache(blob).ok
        /\ NoSharedSessionId(load_cache(blob).value)
        /\ NoSharedFingerprint(load_cache(blob).value)
        /\ \E i \in Instances : blob.content = SavedContent(local[i], now)

---------------------------------------------------------------------------
(* Search (search.py).  str.lower() on the letters of the model's texts, and
   the "in" of two strings. *)

UpperCase == << "A", "B", "C", "D", "E", "F", "G", "H", "I", "J", "K", "L", "M",
                "N", "O", "P", "Q", "R", "S", "T", "U", "V", "W", "X", "Y", "Z" >>
LowerCase == << "a", "b", "c", "d", "e", "f", "g", "h", "i", "j", "k", "l", "m",
                "n", "o", "p", "q", "r", "s", "t", "u", "v", "w", "x", "y", "z" >>

LowerChar(c) ==
    IF \E k \in 1..Len(UpperCase) : UpperCase[k] = c
    THEN LowerCase[CHOOSE k \in 1..Len(UpperCase) : UpperCase[k] = c]
    ELSE c

\* str.lower() of one character: the capital I with dot above (U+0130)
\* becomes two characters, "i" and the combining dot U+0307
LowerOf(c) == IF c = "U+0130" THEN << "i", "U+0307" >> ELSE << LowerChar(c) >>

\* str.lower()
RECURSIVE Lower(_)
Lower(s) == IF s = <<>> THEN <<>> ELSE LowerOf(Head(s)) \o Lower(Tail(s))

\* needle in hay
Contains(hay, needle) ==
    \E i \in 0..(Len(hay) - Len(needle)) : SubSeq(hay, i + 1, i + Len(needle)) = needle

\* matches_search_term without the deep search of full_content
matches_search_term_shallow(session, search_term) ==
    LET search_lower == Lower(search_term)
        fields_to_search == << session.session_id, session.cwd, session.project_name,
                               session.git_branch, session.first_message,
                               session.last_message >>
    IN  \E k \in 1..Len(fields_to_search) :
            Contains(Lower(fields_to_search[k]), search_lower)

\* matches_search_term
matches_search_term(session, search_term) ==
    LET search_lower == Lower(search_term)
        fields_to_search == << session.session_id, session.cwd, session.project_name,
                               session.git_branch, session.first_message,
                               session.last_message, session.full_content >>
    IN  \E k \in 1..Len(fields_to_search) :
            Contains(Lower(fields_to_search[k]), search_lower)

\* filter_sessions
filter_sessions(sessions, search_term) ==
    IF search_term = <<>> THEN sessions
    ELSE LET Matching(s) == matches_search_term(s, search_term)
         IN  SelectSeq(sessions, Matching)

\* get_session_by_id: the first record with that session_id, or none
get_session_by_id(sessions, session_id) ==
    IF \E i \in 1..Len(sessions) : sessions[i].session_id = session_id
    THEN << sessions[CHOOSE i \in 1..Len(sessions) :
                /\ sessions[i].session_id = session_id
                /\ \A j \in 1..(i - 1) : sessions[j].session_id # session_id] >>
    ELSE <<>>

(* SpecSearch: filter_sessions applied to every list of at most MaxLen of
   eight records, one that holds the letters "nE" in no searched field and
   one for each field (or pair of fields) that can hold them, with terms in
   either case. *)

Needle == << "n", "E" >>
Filler == << "o", "k" >>

\* where the needle is: 0 nowhere, 1 session_id, 2 cwd (a parent directory),
\* 3 cwd and project_name (the last directory), 4 git_branch, 5 first_message,
\* 6 last_message, 7 full_content
SearchRecord(k) ==
    SessionData(
        << "s", DigitChars[k + 1] >> \o (IF k = 1 THEN Needle ELSE <<>>),
        << "/" >> \o (IF k = 2 THEN Needle ELSE Filler) \o << "/" >>
                  \o (IF k = 3 THEN Needle ELSE Filler),
        IF k = 3 THEN Needle ELSE Filler,
        IF k = 4 THEN << "f" >> \o Needle ELSE <<>>,
        T1,
        IF k = 5 THEN Needle \o Filler ELSE Filler,
        IF k = 6 THEN Filler \o Needle ELSE Filler,
        2,
        SourcePath(<< "s", DigitChars[k + 1] >>),
        k,
        IF k = 7 THEN Filler \o << "\n" >> \o Needle ELSE Filler)

SearchUniverse == { SearchRecord(k) : k \in 0..7 }

SearchTerms ==
    { <<>>, << "n", "E" >>, << "N", "e" >>, << "n", "e" >>, << "N", "E" >>,
      << "O" >>, << "e", "n" >>, << "n", "E", "n", "E" >> }

InitSearch ==
    /\ input \in Lists(SearchUniverse, MaxLen)
    /\ op = "none"
    /\ output = <<>>
    /\ FsIdle /\ RunIdle /\ RaceIdle /\ CliIdle /\ HistIdle

ApplyFilter ==
    \E term \in SearchTerms :
        Applied("filter", [term |-> term, value |-> filter_sessions(input, term)])

NextSearch == ApplyFilter

SpecSearch == InitSearch /\ [][NextSearch]_vars

\* a record's searched fields, as the claim lists them
SearchedFields(s) ==
    { s.session_id, s.cwd, s.project_name, s.git_branch,
      s.first_message, s.last_message, s.full_content }

TermOccurs(s, term) == \E f \in SearchedFields(s) : Contains(Lower(f), Lower(term))

\* the strictly increasing index maps from 1..n into 1..m
Embeddings(n, m) ==
    { e \in [1..n -> 1..m] : \A i \in 1..n : \A j \in 1..n : i < j => e[i] < e[j] }

\* C20: filter_sessions returns its input when the term is empty; otherwise
\* it returns exactly the records in which the lower-cased term occurs in the
\* lower-cased value of one of the seven searched fields, in their input
\* order (each kept position once, no other position).
C20_FilterIsTheMatchingSubsequence ==
    op = "filter" =>
        IF output.term = <<>> THEN output.value = input
        ELSE LET kept == { i \in 1..Len(input) : TermOccurs(input[i], output.term) }
             IN  /\ Len(output.value) = Cardinality(kept)
                 /\ \E e \in Embeddings(Len(output.value), Len(input)) :
                        /\ { e[i] : i \in 1..Len(output.value) } = kept
                        /\ \A i \in 1..Len(output.value) : output.value[i] = input[e[i]]

\* C20's case: a term in another case than the text, found only in the
\* full_content of one record and in the session_id of another, with a
\* record between them that does not match.
C20_Witness ==
    /\ op = "filter"
    /\ output.term = << "N", "e" >>
    /\ Len(input) = 3
    /\ input[1] = SearchRecord(7)
    /\ input[2] = SearchRecord(0)
    /\ input[3] = SearchRecord(1)
    /\ output.value = << SearchRecord(7), SearchRecord(1) >>

---------------------------------------------------------------------------
(* Formatter (formatter.py).  A text is a sequence of characters; an ANSI
   escape sequence, a NerdFont icon, the unit separator U+241F and the box
   character U+2500 are one element each, named by a string. *)

PROJECT_COLUMN_WIDTH == 20
PATH_COLUMN_WIDTH == 40
TIME_COLUMN_WIDTH == 16

COLOR_GREEN == "ESC[32m"
COLOR_BLUE == "ESC[34m"
COLOR_YELLOW == "ESC[33m"
COLOR_GRAY == "ESC[90m"
COLOR_BOLD == "ESC[1m"
COLOR_RESET == "ESC[0m"
COLOR_MAUVE == "ESC[38;2;198;160;246m"
COLOR_LAVENDER == "ESC[38;2;183;189;248m"
COLOR_OVERLAY0 == "ESC[38;2;110;115;141m"
COLOR_CATPPUCCIN_BLUE == "ESC[38;2;138;173;244m"
COLOR_CONCEAL == "ESC[8m"
COLOR_RED == "ESC[31m"

\* the texts the pattern \x1b\[[0-9;]*m of fzf.py matches
AnsiCodes ==
    { COLOR_GREEN, COLOR_BLUE, COLOR_YELLOW, COLOR_GRAY, COLOR_BOLD, COLOR_RESET,
      COLOR_MAUVE, COLOR_LAVENDER, COLOR_OVERLAY0, COLOR_CATPPUCCIN_BLUE,
      COLOR_CONCEAL, COLOR_RED }

ICON_PROJECT == "U+EB30"
ICON_FOLDER == "U+EA83"
ICON_CLOCK == "U+F017"
ICON_RECENT == "U+F27B"
ICON_FIRST == "U+F4AD"
BoxChar == "U+2500"

\* str.ljust(width)
LJust(s, width) == IF Len(s) >= width THEN s ELSE s \o Rep(" ", width - Len(s))

\* s[:n], n of either sign
SliceTo(s, n) ==
    IF n >= 0 THEN Prefix(s, n)
    ELSE IF Len(s) + n <= 0 THEN <<>> ELSE SubSeq(s, 1, Len(s) + n)

\* get_dynamic_column_widths, given what shutil.get_terminal_size reports
\* (0 stands for the call raising)
get_dynamic_column_widths(columns) ==
    LET terminal_width == IF columns = 0 \/ columns = 80 THEN 200 ELSE columns
        usable_width == terminal_width - 6
        fixed_width == PROJECT_COLUMN_WIDTH + PATH_COLUMN_WIDTH + TIME_COLUMN_WIDTH + 8
        remaining == usable_width - fixed_width
        available_for_columns == IF remaining - 2 > 10 THEN remaining - 2 ELSE 10
        recent_width == available_for_columns \div 2
    IN  IF remaining < 2 THEN << 5, 5 >>
        ELSE << recent_width, available_for_columns - recent_width >>

\* re.sub(r"\s+", " ", text): every run of whitespace becomes one space
RECURSIVE CollapseWhitespace(_)
CollapseWhitespace(s) ==
    IF s = <<>> THEN <<>>
    ELSE IF Head(s) \in Whitespace
         THEN << " " >> \o CollapseWhitespace(LStrip(s))
         ELSE << Head(s) >> \o CollapseWhitespace(Tail(s))

\* normalize_whitespace
normalize_whitespace(text) ==
    LET normalized == [i \in 1..Len(text) |->
                          IF text[i] \in {"\n", "\r", "\t"} THEN " " ELSE text[i]]
    IN  Strip(CollapseWhitespace(normalized))

\* a plausible slip: the ellipsis is appended after max_length characters
truncate_message_overlong(message, max_length) ==
    LET normalized == normalize_whitespace(message)
    IN  IF Len(normalized) <= max_length THEN normalized
        ELSE SliceTo(normalized, max_length) \o << ".", ".", "." >>

\* truncate_message
truncate_message(message, max_length) ==
    LET normalized == normalize_whitespace(message)
    IN  IF Len(normalized) <= max_length THEN normalized
        ELSE SliceTo(normalized, max_length - 3) \o << ".", ".", "." >>

MonthAbbr ==
    << << "J", "a", "n" >>, << "F", "e", "b" >>, << "M", "a", "r" >>, << "A", "p", "r" >>, << "M", "a", "y" >>, << "J", "u", "n" >>,
       << "J", "u", "l" >>, << "A", "u", "g" >>, << "S", "e", "p" >>, << "O", "c", "t" >>, << "N", "o", "v" >>, << "D", "e", "c" >> >>

\* format_timestamp: strftime("%b %d, %I:%M %p")
format_timestamp(dt) ==
    LET hour12 == IF dt.hour % 12 = 0 THEN 12 ELSE dt.hour % 12
    IN  MonthAbbr[dt.month] \o << " " >> \o Pad(dt.day, 2) \o << ",", " " >>
        \o Pad(hour12, 2) \o << ":" >> \o Pad(dt.minute, 2) \o << " " >>
        \o (IF dt.hour < 12 THEN << "A", "M" >> ELSE << "P", "M" >>)

\* str(Path.home()) of the user running the program
HomeDir == << "/", "w" >>

\* shorten_path
shorten_path(p) ==
    IF Len(p) >= Len(HomeDir) /\ SubSeq(p, 1, Len(HomeDir)) = HomeDir
    THEN << "~" >> \o SubSeq(p, Len(HomeDir) + 1, Len(p))
    ELSE p

\* The longer previews of the first and last message that format_list_row and
\* format_fzf_preview read.  The messages of the model are shorter than the
\* short preview's bound, so both previews are the message itself.
first_message_full(session) == session.first_message

last_message_full(session) == session.last_message

\* format_fzf_preview: the detail panel, by what it shows: the session, and
\* the query its texts are highlighted for (<<>>: none)
format_fzf_preview(session, query) ==
    << "panel" >> \o session.session_id \o << "highlighted" >> \o query

NoRecentMessage == << "(", "n", "o", " ", "r", "e", "c", "e", "n", "t", " ", "m", "e", "s", "s", "a", "g", "e", ")" >>
NoFirstMessage == << "(", "n", "o", " ", "f", "i", "r", "s", "t", " ", "m", "e", "s", "s", "a", "g", "e", ")" >>

\* format_list_row, given the terminal's width
format_list_row(session, columns) ==
    LET widths == get_dynamic_column_widths(columns)
        recent_width == widths[1]
        first_width == widths[2]
        project == LJust(Prefix(session.project_name, PROJECT_COLUMN_WIDTH),
                         PROJECT_COLUMN_WIDTH)
        path_col == LJust(Prefix(shorten_path(session.cwd), PATH_COLUMN_WIDTH),
                      PATH_COLUMN_WIDTH)
        time_str == LJust(format_timestamp(session.timestamp), TIME_COLUMN_WIDTH)
        recent_msg == IF Strip(last_message_full(session)) = <<>> THEN NoRecentMessage
                      ELSE Strip(last_message_full(session))
        recent == LJust(truncate_message(recent_msg, recent_width), recent_width)
        first_msg == IF Strip(first_message_full(session)) = <<>> THEN NoFirstMessage
                     ELSE Strip(first_message_full(session))
        first == LJust(truncate_message(first_msg, first_width), first_width)
    IN  << COLOR_GREEN >> \o project \o << COLOR_RESET, " ", " " >>
        \o << COLOR_BLUE >> \o path_col \o << COLOR_RESET, " ", " " >>
        \o << COLOR_YELLOW >> \o time_str \o << COLOR_RESET, " ", " " >>
        \o << COLOR_MAUVE >> \o recent \o << COLOR_RESET, " ", " " >>
        \o << COLOR_LAVENDER >> \o first \o << COLOR_RESET >>

\* format_list_header
format_list_header(columns) ==
    LET widths == get_dynamic_column_widths(columns)
        project == LJust(<< ICON_PROJECT >> \o << " ", "P", "R", "O", "J", "E", "C", "T" >>, PROJECT_COLUMN_WIDTH)
        path_col == LJust(<< ICON_FOLDER >> \o << " ", "P", "A", "T", "H" >>, PATH_COLUMN_WIDTH)
        time_str == LJust(<< ICON_CLOCK >> \o << " ", "T", "I", "M", "E" >>, TIME_COLUMN_WIDTH)
        recent == LJust(<< ICON_RECENT >> \o << " ", "R", "E", "C", "E", "N", "T", " ", "M", "S", "G" >>, widths[1])
        first == LJust(<< ICON_FIRST >> \o << " ", "F", "I", "R", "S", "T", " ", "M", "S", "G" >>, widths[2])
    IN  << COLOR_BOLD, COLOR_GREEN >> \o project \o << COLOR_RESET, " ", " " >>
        \o << COLOR_BOLD, COLOR_BLUE >> \o path_col \o << COLOR_RESET, " ", " " >>
        \o << COLOR_BOLD, COLOR_YELLOW >> \o time_str \o << COLOR_RESET, " ", " " >>
        \o << COLOR_BOLD, COLOR_MAUVE >> \o recent \o << COLOR_RESET, " ", " " >>
        \o << COLOR_BOLD, COLOR_LAVENDER >> \o first \o << COLOR_RESET >>

\* format_header_separator
format_header_separator(columns) ==
    LET widths == get_dynamic_column_widths(columns)
    IN  << COLOR_GREEN >> \o Rep(BoxChar, PROJECT_COLUMN_WIDTH) \o << COLOR_RESET, " ", " " >>
        \o << COLOR_BLUE >> \o Rep(BoxChar, PATH_COLUMN_WIDTH) \o << COLOR_RESET, " ", " " >>
        \o << COLOR_YELLOW >> \o Rep(BoxChar, TIME_COLUMN_WIDTH) \o << COLOR_RESET, " ", " " >>
        \o << COLOR_MAUVE >> \o Rep(BoxChar, widths[1]) \o << COLOR_RESET, " ", " " >>
        \o << COLOR_LAVENDER >> \o Rep(BoxChar, widths[2]) \o << COLOR_RESET >>

\* format_instruction_header: two lines joined by "\n"
format_instruction_header ==
    << COLOR_OVERLAY0 >> \o << "T", "y", "p", "e", " ", "t", "o", " " >> \o << COLOR_CATPPUCCIN_BLUE >> \o << "s", "e", "a", "r", "c", "h" >>
    \o << COLOR_OVERLAY0 >> \o << " ", "|", " " >> \o << "U+2191", "U+2193", " " >>
    \o << COLOR_CATPPUCCIN_BLUE >> \o << "N", "a", "v", "i", "g", "a", "t", "e" >> \o << COLOR_OVERLAY0 >>
    \o << " ", "|", " " >> \o << "U+21B5", " ", COLOR_CATPPUCCIN_BLUE >> \o << "S", "e", "l", "e", "c", "t" >>
    \o << COLOR_OVERLAY0 >> \o << " ", "|", " ", "E", "s", "c", " " >> \o << COLOR_CATPPUCCIN_BLUE >> \o << "C", "a", "n", "c", "e", "l" >>
    \o << COLOR_RESET >>
    \o << "\n" >>
    \o << COLOR_OVERLAY0 >> \o << "S", "e", "a", "r", "c", "h", "i", "n", "g", " ", "v", "i", "s", "i", "b", "l", "e", " ", "f", "i", "e", "l", "d", "s", " ", "+", " ", "c", "o", "n", "v", "e", "r", "s", "a", "t", "i", "o", "n", " ", "c", "o", "n", "t", "e", "n", "t" >>
    \o << COLOR_RESET >>

---------------------------------------------------------------------------
(* The picker (fzf.py) *)

\* the separator " U+241F " of build_fzf_input and extract_session_id_from_line
SEP == << " ", "U+241F", " " >>

\* re.sub(r'\x1b\[[0-9;]*m', '', text)
StripAnsi(text) ==
    LET NotAnsi(c) == c \notin AnsiCodes
    IN  SelectSeq(text, NotAnsi)

\* the positions at which sep starts in s
Occurrences(s, sep) ==
    { i \in 1..(Len(s) - Len(sep) + 1) : SubSeq(s, i, i + Len(sep) - 1) = sep }

\* str.split(sep)
RECURSIVE Split(_, _)
Split(s, sep) ==
    IF Occurrences(s, sep) = {} THEN << s >>
    ELSE LET i == Min(Occurrences(s, sep))
         IN  << SubSeq(s, 1, i - 1) >> \o Split(SubSeq(s, i + Len(sep), Len(s)), sep)

\* str.rsplit(sep, maxsplit)
RECURSIVE RSplit(_, _, _)
RSplit(s, sep, maxsplit) ==
    IF maxsplit = 0 \/ Occurrences(s, sep) = {} THEN << s >>
    ELSE LET i == Max(Occurrences(s, sep))
         IN  RSplit(SubSeq(s, 1, i - 1), sep, maxsplit - 1)
             \o << SubSeq(s, i + Len(sep), Len(s)) >>

\* sep.join(parts)
RECURSIVE Join(_, _)
Join(parts, sep) ==
    IF parts = <<>> THEN <<>>
    ELSE IF Len(parts) = 1 THEN parts[1]
    ELSE parts[1] \o sep \o Join(Tail(parts), sep)

\* the row build_fzf_input appends for one session (lines 59-72)
fzf_row(session, columns) ==
    LET formatted == format_list_row(session, columns)
        formatted_plain == StripAnsi(formatted)
        searchable_content == session.session_id \o SEP \o formatted_plain
                              \o SEP \o session.full_content
        invisible_searchable == << COLOR_CONCEAL >> \o searchable_content
                                \o << COLOR_RESET >>
    IN  formatted \o << " ", " " >> \o invisible_searchable

\* build_fzf_input
build_fzf_input(sessions, columns) ==
    LET instruction_lines == Split(format_instruction_header, << "\n" >>)
        rows == << instruction_lines[1], instruction_lines[2],
                   format_list_header(columns), format_header_separator(columns) >>
                \o [i \in 1..Len(sessions) |-> fzf_row(sessions[i], columns)]
    IN  Join(rows, << "\n" >>)

\* extract_session_id_from_line
extract_session_id_from_line(line) ==
    LET plain == StripAnsi(line)
        parts == RSplit(plain, SEP, 3)
    IN  IF Len(parts) >= 4 THEN parts[Len(parts) - 2] ELSE <<>>

\* session_map.get(session_id) of run_fzf_selection: the dict comprehension
\* keeps the last session of each session_id; no session is <<>>
session_map_get(sessions, session_id) ==
    LET at == { i \in 1..Len(sessions) : sessions[i].session_id = session_id }
    IN  IF at = {} THEN <<>> ELSE << sessions[Max(at)] >>

\* --header-lines=4
HeaderLines == 4

ErrorRunningFzf == << "E", "r", "r", "o", "r", " ", "r", "u", "n", "n", "i", "n", "g", " ", "f", "z", "f", ":", " " >>

\* The lines fzf offers for selection: those of its input after the header
\* lines.
PickerItems(fzf_input) ==
    LET lines == Split(fzf_input, << "\n" >>)
    IN  SubSeq(lines, HeaderLines + 1, Len(lines))

\* run_fzf_selection treating a non-zero status of fzf as an error
run_fzf_selection_strict(sessions, fzf_installed, picker) ==
    IF ~fzf_installed \/ (picker.started /\ picker.returncode # 0)
    THEN [raised |-> TRUE, selected |-> <<>>, stderr |-> <<>>]
    ELSE [raised |-> FALSE,
          selected |-> IF ~picker.started THEN <<>>
                       ELSE session_map_get(sessions,
                                extract_session_id_from_line(Strip(picker.stdout))),
          stderr |-> IF picker.started THEN <<>> ELSE << ErrorRunningFzf >>]

\* run_fzf_selection, given what the fzf process did (picker): whether it
\* raised (RuntimeError without fzf), the selected session (<<>> for None) and
\* what it printed on stderr
run_fzf_selection(sessions, fzf_installed, picker) ==
    IF ~fzf_installed
    THEN [raised |-> TRUE, selected |-> <<>>, stderr |-> <<>>]
    ELSE IF ~picker.started          \* subprocess.run raised; caught at line 160
    THEN [raised |-> FALSE, selected |-> <<>>, stderr |-> << ErrorRunningFzf >>]
    ELSE IF picker.returncode # 0
    THEN [raised |-> FALSE, selected |-> <<>>, stderr |-> <<>>]
    ELSE [raised |-> FALSE, stderr |-> <<>>,
          selected |-> session_map_get(sessions,
                           extract_session_id_from_line(Strip(picker.stdout)))]

---------------------------------------------------------------------------
(* The command line (main.py): create_parser and parse_args on a list of
   argument strings. *)

OptList == << "-", "-", "l", "i", "s", "t" >>
OptRebuild == << "-", "-", "r", "e", "b", "u", "i", "l", "d" >>
OptVerbose == << "-", "-", "v", "e", "r", "b", "o", "s", "e" >>
OptPreview == << "-", "-", "p", "r", "e", "v", "i", "e", "w" >>
OptClearCache == << "-", "-", "c", "l", "e", "a", "r", "-", "c", "a", "c", "h", "e" >>
OptHelp == << "-", "-", "h", "e", "l", "p" >>
OptPreviewQuery == << "-", "-", "p", "r", "e", "v", "i", "e", "w", "-", "q", "u", "e", "r", "y" >>

\* the long options create_parser registers (argparse adds --help)
LongOptions == { OptList, OptRebuild, OptVerbose, OptPreview, OptClearCache, OptHelp }

\* the short flags, by their letter
ShortFlags == [l |-> OptList, r |-> OptRebuild, v |-> OptVerbose, h |-> OptHelp]

\* parse_args() on no arguments
DefaultArgs ==
    [search |-> <<>>, list |-> FALSE, rebuild |-> FALSE, verbose |-> FALSE,
     preview |-> <<>>, clear_cache |-> FALSE, help |-> FALSE]

IsPrefixOf(s, t) == Len(s) <= Len(t) /\ SubSeq(t, 1, Len(s)) = s

\* an argument string argparse reads as an option
OptionLike(token) == Len(token) >= 2 /\ token[1] = "-"

\* the long options a string selects: itself, or those it abbreviates
LongMatches(token) ==
    IF token \in LongOptions THEN { token }
    ELSE { o \in LongOptions : IsPrefixOf(token, o) }

SetFlag(args, option) ==
    CASE option = OptList -> [args EXCEPT !.list = TRUE]
      [] option = OptRebuild -> [args EXCEPT !.rebuild = TRUE]
      [] option = OptVerbose -> [args EXCEPT !.verbose = TRUE]
      [] option = OptClearCache -> [args EXCEPT !.clear_cache = TRUE]
      [] option = OptHelp -> [args EXCEPT !.help = TRUE]

RECURSIVE SetShortFlags(_, _)
SetShortFlags(args, letters) ==
    IF letters = <<>> THEN args
    ELSE SetShortFlags(SetFlag(args, ShortFlags[Head(letters)]), Tail(letters))

\* parser.error: usage on stderr, exit status 2
ParseError == [ok |-> FALSE, status |-> 2]

\* parse_args: the arguments left to right; args accumulates the namespace,
\* positionals counts the positional strings seen
RECURSIVE parse_args(_, _, _)
parse_args(tokens, args, positionals) ==
    IF tokens = <<>> THEN [ok |-> TRUE, args |-> args]
    ELSE LET token == Head(tokens)
             rest == Tail(tokens)
         IN  IF ~OptionLike(token)
             THEN \* the one positional, search (nargs="?")
                  IF positionals = 0
                  THEN parse_args(rest, [args EXCEPT !.search = token], 1)
                  ELSE ParseError                    \* unrecognized arguments
             ELSE IF token[2] = "-"
             THEN IF Cardinality(LongMatches(token)) # 1
                  THEN ParseError                    \* unrecognized or ambiguous
                  ELSE LET option == CHOOSE o \in LongMatches(token) : TRUE
                       IN  IF option = OptPreview
                           THEN IF rest = <<>> \/ OptionLike(Head(rest))
                                THEN ParseError      \* expected one argument
                                ELSE parse_args(Tail(rest),
                                         [args EXCEPT !.preview = Head(rest)],
                                         positionals)
                           ELSE parse_args(rest, SetFlag(args, option), positionals)
             ELSE LET letters == Tail(token)
                  IN  IF \A k \in 1..Len(letters) : letters[k] \in DOMAIN ShortFlags
                      THEN parse_args(rest, SetShortFlags(args, letters), positionals)
                      ELSE ParseError

(* The preview command fzf runs for the hovered line (fzf.py line 130):
   echo {} | python3 -c "..." | xargs -I % sh -c 'cc-fi --preview % --preview-query "{q}"' *)

\* the python3 -c filter: parts[-3] of the line split at the separator
preview_filter(line) ==
    LET plain == StripAnsi(line \o << "\n" >>)
        parts == Split(plain, SEP)
    IN  IF Len(parts) >= 3 THEN parts[Len(parts) - 2] ELSE <<>>

\* the words the shell makes of an unquoted text
RECURSIVE ShellWords(_)
ShellWords(text) ==
    LET s == LStrip(text)
    IN  IF s = <<>> THEN <<>>
        ELSE LET stops == { i \in 1..Len(s) : s[i] \in Whitespace }
                 n == IF stops = {} THEN Len(s) ELSE Min(stops) - 1
             IN  << SubSeq(s, 1, n) >> \o ShellWords(SubSeq(s, n + 1, Len(s)))

\* The argument lists of the cc-fi runs the preview command starts: none when
\* the filter prints an empty line (xargs skips it), else one.
preview_command(line, query) ==
    IF Strip(preview_filter(line)) = <<>> THEN <<>>
    ELSE << << OptPreview >> \o ShellWords(preview_filter(line))
            \o << OptPreviewQuery, query >> >>

---------------------------------------------------------------------------
(* What the user does in fzf, and the texts main.py prints *)

MaxItems == 4      \* the furthest picker line the user selects

\* what the user does in fzf: dismiss it (Esc or Ctrl-C, status 130; Enter on
\* no match, status 1), or select the item-th line, which fzf prints as given
\* or with its colour codes removed; "nostart": the fzf process fails to start
Users ==
    { [act |-> "dismiss", returncode |-> rc, item |-> 0, ansi |-> FALSE] : rc \in {1, 130} }
    \cup { [act |-> "select", returncode |-> 0, item |-> k, ansi |-> a] :
               k \in 1..MaxItems, a \in BOOLEAN }
    \cup { [act |-> "nostart", returncode |-> 0, item |-> 0, ansi |-> FALSE] }

NoUser == [act |-> "none", returncode |-> 0, item |-> 0, ansi |-> FALSE]

CanChoose(fzf_input, user) ==
    user.act = "select" => user.item <= Len(PickerItems(fzf_input))

\* the fzf process on its input, under that user
PickerRun(fzf_input, user) ==
    [started |-> user.act # "nostart",
     returncode |-> user.returncode,
     stdout |-> IF user.act # "select" \/ ~CanChoose(fzf_input, user) THEN <<>>
                ELSE (IF user.ansi THEN PickerItems(fzf_input)[user.item]
                      ELSE StripAnsi(PickerItems(fzf_input)[user.item]))
                     \o << "\n" >>]

NoSessionsFound == << "N", "o", " ", "s", "e", "s", "s", "i", "o", "n", "s", " ", "f", "o", "u", "n", "d", "." >>
CacheCleared == << "C", "a", "c", "h", "e", " ", "c", "l", "e", "a", "r", "e", "d", "." >>
SessionNotFound == << "S", "e", "s", "s", "i", "o", "n", " ", "n", "o", "t", " ", "f", "o", "u", "n", "d", ":", " " >>
ToResume == << "T", "o", " ", "r", "e", "s", "u", "m", "e", " ", "t", "h", "i", "s", " ", "s", "e", "s", "s", "i", "o", "n", ",", " ", "r", "u", "n", ":" >>
ErrorPrefix == << "E", "r", "r", "o", "r", ":", " " >>
FzfNotInstalled == << "f", "z", "f", " ", "i", "s", " ", "n", "o", "t", " ", "i", "n", "s", "t", "a", "l", "l", "e", "d", ".", " ", "I", "n", "s", "t", "a", "l", "l", " ", "w", "i", "t", "h", ":", " ", "b", "r", "e", "w", " ", "i", "n", "s", "t", "a", "l", "l", " ", "f", "z", "f", " ", "(", "m", "a", "c", "O", "S", ")", " ", "o", "r", " ", "a", "p", "t", " ", "i", "n", "s", "t", "a", "l", "l", " ", "f", "z", "f", " ", "(", "L", "i", "n", "u", "x", ")" >>
PermissionDenied == << "[", "E", "r", "r", "n", "o", " ", "1", "3", "]", " ", "P", "e", "r", "m", "i", "s", "s", "i", "o", "n", " ", "d", "e", "n", "i", "e", "d" >>
Usage == << "u", "s", "a", "g", "e", ":", " ", "c", "c", "-", "f", "i" >>

\* the resume command of handle_interactive_mode
resume_cmd(selected) ==
    << "c", "d", " ", "\"" >> \o selected.cwd \o << "\"", " ", "&", "&", " ", "c", "l", "a", "u", "d", "e", " ", "-", "r", " " >> \o selected.session_id

\* print_sessions_list
print_sessions_list(sessions, columns) ==
    << format_list_header(columns), format_header_separator(columns) >>
    \o [i \in 1..Len(sessions) |-> format_list_row(sessions[i], columns)]

---------------------------------------------------------------------------
(* SpecPicker: build_fzf_input, the selection and the preview command, on
   every list of at most MaxLen sessions with distinct session_ids, at
   several terminal widths. *)

\* 1 a one-line conversation       2 a conversation of two messages
\* 3 a conversation whose text holds the separator
\* 4 messages with runs of whitespace, longer than a narrow column; no recent
\*   message
PickerRecord(k) ==
    SessionData(
        << "s", DigitChars[k + 1] >>,
        IF k = 4 THEN << "/", "s", "r", "v", "/", "a", "p", "p" >> ELSE << "/", "w", "/", "p" >>,
        IF k = 4 THEN << "a", "p", "p" >> ELSE << "p" >>,
        IF k = 4 THEN <<>> ELSE Branch,
        IF k = 4 THEN T2 ELSE T1,
        IF k = 4 THEN << "f", "i", "x", " ", " ", "t", "h", "e", "\t", "p", "a", "r", "s", "e", "r", "\n", "n", "o", "w" >> ELSE Hello,
        IF k = 4 THEN << " " >> ELSE << "b", "y", "e" >>,
        2,
        SourcePath(<< "s", DigitChars[k + 1] >>),
        k,
        CASE k = 1 -> Hello
          [] k = 2 -> Hello \o << "\n" >> \o << "y", "o" >>
          [] k = 3 -> << "a" >> \o SEP \o << "b" >>
          [] OTHER -> << "f", "i", "x", " ", " ", "t", "h", "e", "\t", "p", "a", "r", "s", "e", "r", "\n", "n", "o", "w" >>)

PickerUniverse == { PickerRecord(k) : k \in 1..4 }

\* what shutil.get_terminal_size().columns reports: a terminal too narrow for
\* the flexible columns, and one with an odd remainder to split
TerminalColumns == { 100, 103 }

Queries == { <<>>, << "y", "o" >> }

InitPicker ==
    /\ input \in { l \in Lists(PickerUniverse, MaxLen) :
                     \A i \in 1..Len(l) : \A j \in 1..Len(l) :
                         i # j => l[i].session_id # l[j].session_id }
    /\ op = "none"
    /\ output = <<>>
    /\ FsIdle /\ RunIdle /\ RaceIdle /\ CliIdle /\ HistIdle

ApplyBuild ==
    /\ op = "none"
    /\ \E columns \in TerminalColumns :
        Applied("build", [columns |-> columns,
                          text |-> build_fzf_input(input, columns)])

\* run_fzf_selection(input) with fzf installed, and what the user does
ApplySelect ==
    /\ op = "none"
    /\ input # <<>>
    /\ \E columns \in TerminalColumns, user \in Users :
        LET picker == PickerRun(build_fzf_input(input, columns), user)
        IN  /\ CanChoose(build_fzf_input(input, columns), user)
            /\ Applied("select",
                   [columns |-> columns, user |-> user,
                    session_id |-> IF picker.started /\ picker.returncode = 0
                                   THEN extract_session_id_from_line(Strip(picker.stdout))
                                   ELSE <<>>,
                    selection |-> run_fzf_selection(input, TRUE, picker)])

\* fzf runs the preview command for the hovered line and the current query:
\* the argument lists of the runs it starts, and what parse_args makes of them
ApplyPreview ==
    /\ op = "none"
    /\ \E columns \in TerminalColumns, query \in Queries, item \in 1..MaxItems :
        LET items == PickerItems(build_fzf_input(input, columns))
        IN  /\ item <= Len(items)
            /\ Applied("preview",
                   [columns |-> columns, item |-> item, query |-> query,
                    argv |-> preview_command(items[item], query),
                    parsed |-> [i \in 1..Len(preview_command(items[item], query)) |->
                                   parse_args(preview_command(items[item], query)[i],
                                              DefaultArgs, 0)]])

NextPicker ==
    \/ ApplyBuild
    \/ ApplySelect
    \/ ApplyPreview

SpecPicker == InitPicker /\ [][NextPicker]_vars

\* the sessions whose picker row is that line
RowOf(line, columns) ==
    { j \in 1..Len(input) : StripAnsi(fzf_row(input[j], columns)) = StripAnsi(line) }

\* C13 (as claimed; the code violates it): when the user selects the line
\* built for a session, the identifier extracted from the line fzf prints is
\* that session's session_id and the selection resolves to that session.
C13_IdRecoverableFromLine ==
    (op = "select" /\ output.user.act = "select") =>
        \A j \in RowOf(PickerItems(build_fzf_input(input, output.columns))[output.user.item],
                       output.columns) :
            /\ output.session_id = input[j].session_id
            /\ output.selection.selected = << input[j] >>

\* C14 (as claimed; the code violates it): the text handed to fzf has
\* exactly four header lines and then one line per session, in the order of
\* the list.
C14_FourHeaderLinesThenOnePerSession ==
    op = "build" =>
        LET lines == Split(output.text, << "\n" >>)
        IN  /\ Len(lines) = 4 + Len(input)
            /\ \A i \in 1..Len(input) :
                   lines[4 + i] = fzf_row(input[i], output.columns)

\* C15 (as claimed; the code violates it): the preview command run for the
\* line of a session starts one run of the program with an argument list
\* that parse_args accepts, and the session the run is asked to show is that
\* of the hovered line.
C15_PreviewShowsHoveredRecord ==
    op = "preview" =>
        \A j \in RowOf(PickerItems(build_fzf_input(input, output.columns))[output.item],
                       output.columns) :
            /\ Len(output.argv) = 1
            /\ output.parsed[1].ok
            /\ output.parsed[1].args.preview = input[j].session_id

\* the serialized records of a cache file
CachedDicts(b) == JsonLoad(b.content).sessions

\* C28: a cache file within its TTL that loads but for records without the
\* full_content field is a hit: each such record with content is returned
\* with an empty full_content and its other attributes as stored.
C28_MissingFullContentLoads ==
    (lastOp = "get" /\ ~force /\ CacheInTtl /\ ~Unloadable(before[1])) =>
        LET dicts == CachedDicts(before[1])
        IN  (\A i \in 1..Len(dicts) : FromIsoformat(dicts[i].timestamp).ok) =>
                /\ path = "hit"
                /\ outcome = "returned"
                /\ blob = before[1]
                /\ \A i \in 1..Len(dicts) :
                       ("full_content" \notin DOMAIN dicts[i]
                            /\ Strip(dicts[i].first_message) # <<>>) =>
                           \E j \in 1..Len(result) :
                               /\ result[j].full_content = <<>>
                               /\ \A a \in RequiredKeys :
                                      to_dict(result[j])[a] = dicts[i][a]

C28_Witness ==
    /\ lastOp = "get" /\ path = "hit"
    /\ \E i \in 1..Len(CachedDicts(before[1])) :
           "full_content" \notin DOMAIN CachedDicts(before[1])[i]
    /\ \E j \in 1..Len(result) :
           result[j].full_content = <<>> /\ result[j].first_message # <<>>
    /\ \E j \in 1..Len(result) : result[j].full_content # <<>>

\* C29: a cache hit leaves the cache file and its modification time as they
\* were, and returns the cached records that have content, each as often as
\* the file holds it (no deduplication), whatever the session files are.
C29_HitChangesNothing ==
    (lastOp = "get" /\ path = "hit") =>
        /\ ~force
        /\ outcome = "returned"
        /\ blob = before[1]
        /\ mtime = before[2]
        /\ LET cached == filter_empty_sessions(load_cache(before[1]).value)
           IN  /\ Len(result) = Len(cached)
               /\ \A i \in 1..Len(cached) : \E j \in 1..Len(result) : result[j] = cached[i]

\* a hit, later than the file was written, on a file holding a session twice,
\* while the session files hold something else
C29_Witness ==
    /\ lastOp = "get" /\ path = "hit"
    /\ now > mtime
    /\ \E i \in 1..Len(result) : \E j \in 1..Len(result) :
           i # j /\ result[i].session_id = result[j].session_id
    /\ result # Rebuild(files)

\* C30: after a rebuild has saved the cache file, every call without
\* force_rebuild made before the TTL expires, with no invalidation and no
\* other write in between and the file readable, returns exactly the list
\* that rebuild returned, which holds no session_id and no fingerprint twice;
\* a call without force_rebuild that finds no file, or one whose TTL has
\* expired, rebuilds.
C30_HitsServeTheRebuild ==
    [][ /\ (lastOp' = "get" /\ ~force' /\ saved.live /\ blob.readable
               /\ now - mtime < CACHE_TTL_SECONDS) =>
               /\ path' = "hit"
               /\ outcome' = "returned"
               /\ result' = saved.sessions
               /\ NoSharedSessionId(result')
               /\ NoSharedFingerprint(result')
        /\ (lastOp' = "get" /\ ~force'
               /\ (~blob.exists \/ now - mtime >= CACHE_TTL_SECONDS)) =>
               /\ path' = "miss"
               /\ outcome' = "returned" => result' = Rebuild(files)
      ]_vars

\* a hit, later than the rebuild and after the session files changed, that
\* serves the list the rebuild saved
C30_Witness ==
    /\ lastOp = "get" /\ path = "hit"
    /\ saved.live
    /\ now > mtime
    /\ Len(result) >= 1
    /\ result = saved.sessions
    /\ result # Rebuild(files)

\* a rebuild because the TTL of the saved file has expired
C30_ReachesExpiry ==
    /\ lastOp = "get" /\ path = "miss" /\ ~force
    /\ before[1].exists
    /\ load_cache(before[1]).ok
    /\ now - before[2] >= CACHE_TTL_SECONDS

---------------------------------------------------------------------------
(* SpecCli: runs of the program, one at a time.  A run goes through main in
   three steps: Start (parse_args, the dispatch, and the call of
   get_sessions_with_cache or invalidate_cache), Render (what the mode prints,
   or the input it builds for fzf) and, in interactive mode, PickerReturns
   (the fzf process ends); Exit is the end of the process.  Between runs
   session files appear and the cache location loses or regains its write
   permission. *)

\* the argument lists the user, or fzf's preview command, gives
Argvs ==
    { <<>>,
      << << "-", "r" >> >>,
      << << "-", "l" >> >>,
      << << "-", "l" >>, << "-", "r" >> >>,
      << << "-", "l" >>, << "H", "I" >> >>,
      << OptClearCache >>,
      << OptPreview, IdA >>,
      << OptPreview, IdA, OptPreviewQuery, Hello >> }

\* the widths of the terminal of these runs
CliColumns == { 100 }

\* the session files of these runs: two sessions and a file the parser rejects
CliSourceFiles ==
    { ParsedFile(Variant(IdA, 1, 7)), ParsedFile(Variant(IdB, 2, 8)), Malformed }

InitCli ==
    /\ files \in Lists(CliSourceFiles, 1)
    /\ blob = Absent
    /\ mtime = 0
    /\ now = 0
    /\ writable = TRUE
    /\ RunIdle /\ PureIdle /\ RaceIdle /\ CliIdle /\ HistIdle

\* no process of the program exists
NoProcess == proc.pc = "idle"

\* the run ends with that exit status and those lines added to its output
Exits(p, status, out, err) ==
    [p EXCEPT !.pc = "done", !.exit = status,
              !.stdout = p.stdout \o out, !.stderr = p.stderr \o err]

\* main up to the return of get_sessions_with_cache
Start ==
    /\ NoProcess
    /\ \E tokens \in Argvs, fzf_installed \in BOOLEAN, columns \in CliColumns :
        LET parsed == parse_args(tokens, DefaultArgs, 0)
            started == [NoRun EXCEPT !.argv = tokens, !.fzf_installed = fzf_installed,
                                     !.columns = columns]
        IN  /\ lastOp' = "main"
            /\ before' = << blob, mtime >>
            /\ IF ~parsed.ok
               THEN /\ proc' = Exits([started EXCEPT !.mode = "usage"], 2, <<>>, << Usage >>)
                    /\ force' = FALSE /\ path' = "none" /\ outcome' = "none"
                    /\ result' = <<>>
                    /\ UNCHANGED << blob, mtime >>
               ELSE IF parsed.args.help
               THEN /\ proc' = Exits([started EXCEPT !.mode = "help"], 0, << Usage >>, <<>>)
                    /\ force' = FALSE /\ path' = "none" /\ outcome' = "none"
                    /\ result' = <<>>
                    /\ UNCHANGED << blob, mtime >>
               ELSE IF parsed.args.clear_cache
               THEN /\ blob' = invalidate_cache(blob).blob
                    /\ proc' = Exits([started EXCEPT !.mode = "clear",
                                                     !.rebuild = parsed.args.rebuild],
                                     0, << CacheCleared >>, <<>>)
                    /\ force' = FALSE /\ path' = "none" /\ outcome' = "returned"
                    /\ result' = <<>>
                    /\ UNCHANGED mtime
               ELSE LET mode == IF parsed.args.preview # <<>> THEN "preview"
                                ELSE IF parsed.args.list THEN "list"
                                ELSE "interactive"
                        \* only handle_list_mode passes the flag on
                        force_rebuild == mode = "list" /\ parsed.args.rebuild
                        got == get_sessions_with_cache(force_rebuild, blob, mtime, now,
                                                       files, writable)
                        run == [started EXCEPT !.mode = mode,
                                               !.rebuild = parsed.args.rebuild,
                                               !.search = parsed.args.search,
                                               !.preview = parsed.args.preview]
                    IN  /\ force' = force_rebuild
                        /\ path' = got.path
                        /\ outcome' = IF got.raised THEN "raised" ELSE "returned"
                        /\ result' = got.sessions
                        /\ blob' = got.blob
                        /\ mtime' = got.mtime
                        /\ proc' = IF got.raised
                                   THEN Exits(run, 1, <<>>, << ErrorPrefix \o PermissionDenied >>)
                                   ELSE [run EXCEPT !.pc = "loaded"]
    /\ UNCHANGED << files, now, writable, pureVars, raceVars, histVars >>

\* the rest of handle_preview_mode and handle_list_mode, and
\* handle_interactive_mode up to the start of fzf
Render ==
    /\ proc.pc = "loaded"
    /\ proc' =
         CASE proc.mode = "preview" ->
                LET session == get_session_by_id(result, proc.preview)
                IN  IF session # <<>>
                    THEN Exits(proc, 0, << format_fzf_preview(session[1], <<>>) >>, <<>>)
                    ELSE Exits(proc, 0, << SessionNotFound \o proc.preview >>, <<>>)
           [] proc.mode = "list" ->
                LET sessions == IF proc.search # <<>>
                                THEN filter_sessions(result, proc.search) ELSE result
                IN  IF sessions = <<>> THEN Exits(proc, 0, << NoSessionsFound >>, <<>>)
                    ELSE Exits(proc, 0, print_sessions_list(sessions, proc.columns), <<>>)
           [] proc.mode = "interactive" ->
                IF result = <<>> THEN Exits(proc, 0, << NoSessionsFound >>, <<>>)
                ELSE IF run_fzf_selection(result, proc.fzf_installed,
                                          PickerRun(<<>>, NoUser)).raised
                THEN Exits(proc, 1, <<>>, << ErrorPrefix \o FzfNotInstalled >>)
                ELSE [proc EXCEPT !.pc = "picking",
                                  !.fzf_input = build_fzf_input(result, proc.columns)]
    /\ UNCHANGED << fsVars, runVars, pureVars, raceVars, histVars >>

\* the fzf process ends; the rest of run_fzf_selection and of
\* handle_interactive_mode
PickerReturns ==
    /\ proc.pc = "picking"
    /\ \E user \in Users :
        LET picked == run_fzf_selection(result, proc.fzf_installed,
                                        PickerRun(proc.fzf_input, user))
            chose == [proc EXCEPT !.user = user]
        IN  /\ CanChoose(proc.fzf_input, user)
            /\ proc' =
                 IF picked.raised
                 THEN Exits(chose, 1, <<>>, << ErrorPrefix \o FzfNotInstalled >>)
                 ELSE IF picked.selected # <<>>
                 THEN Exits(chose, 0,
                            << <<>>, ToResume, <<>>,
                               << " ", " " >> \o resume_cmd(picked.selected[1]), <<>> >>,
                            picked.stderr)
                 ELSE Exits(chose, 0, <<>>, picked.stderr)
    /\ UNCHANGED << fsVars, runVars, pureVars, raceVars, histVars >>

\* the process that returned from main is gone
Exit ==
    /\ proc.pc = "done"
    /\ proc' = NoRun
    /\ lastOp' = "exit"
    /\ force' = FALSE
    /\ before' = << Absent, 0 >>
    /\ path' = "none"
    /\ outcome' = "none"
    /\ result' = <<>>
    /\ UNCHANGED << fsVars, pureVars, raceVars, histVars >>

NextCli ==
    \/ Start
    \/ Render
    \/ PickerReturns
    \/ Exit
    \/ (NoProcess /\ SourceChange /\ files'[Len(files')] \in CliSourceFiles)
    \/ (NoProcess /\ SetWritable)

SpecCli == InitCli /\ [][NextCli]_vars

\* a run of main is under way or has just returned
Running == lastOp = "main" /\ proc.pc \in {"loaded", "picking", "done"}

\* the run got a session list from get_sessions_with_cache
GotSessions == Running /\ proc.mode \in {"list", "interactive"} /\ outcome = "returned"

\* C16 (as claimed; the code violates it): a run given the forced-rebuild
\* flag, in list mode or in interactive mode, with a writable cache location,
\* takes its session list from a re-indexing of the session files, not from
\* the cache file, and writes the cache file anew.
C16_ForcedRebuildReindexes ==
    (GotSessions /\ proc.rebuild /\ writable) =>
        /\ path = "miss"
        /\ result = Rebuild(files)
        /\ blob = save_cache(result, before[1], now)
        /\ mtime = now

\* C17: when the fzf process ends with a non-zero status (the user dismissed
\* it), the run selects no session: it prints nothing, neither a resume
\* command nor an error, and main returns 0.
C17_DismissalIsNoSelection ==
    (proc.pc = "done" /\ proc.user.act = "dismiss") =>
        /\ proc.user.returncode # 0
        /\ proc.exit = 0
        /\ proc.stdout = <<>>
        /\ proc.stderr = <<>>

C17_Witness ==
    /\ proc.pc = "done"
    /\ proc.user.act = "dismiss"
    /\ proc.user.returncode = 130
    /\ Len(result) = 2

\* C18 (as claimed; the code violates it): an interactive run on a machine
\* without fzf, whose session list was obtained, ends with a non-zero exit
\* code and the one-line install guidance, whatever the list is; runs in the
\* other modes never report the missing binary.
C18_MissingPickerIsFatalForInteractiveOnly ==
    /\ (proc.pc = "done" /\ proc.mode = "interactive" /\ outcome = "returned"
            /\ ~proc.fzf_installed) =>
           /\ proc.exit # 0
           /\ proc.stderr = << ErrorPrefix \o FzfNotInstalled >>
    /\ (proc.pc = "done" /\ proc.mode \in {"list", "preview", "clear"}) =>
           \A i \in 1..Len(proc.stderr) : proc.stderr[i] # ErrorPrefix \o FzfNotInstalled

\* the sessions of the files the parser accepts, in discovery order
Parseable(session_files) ==
    LET good == SelectSeq(session_files, LAMBDA f : f.ok)
    IN  [i \in 1..Len(good) |-> good[i].session]

\* C19: a run that rebuilds the index over session files, some of which the
\* parser rejects, gets the rebuild of exactly the files the parser accepts;
\* with a writable cache location the call returns, and a list run ends with
\* exit code 0 and nothing on stderr.
C19_ParseFailureSkipsOnlyThatFile ==
    /\ (Running /\ path \in {"miss", "loadfail"} /\ outcome = "returned") =>
           result = filter_empty_sessions(
                        deduplicate(sort_sessions_by_recency(Parseable(files)),
                                    DEDUPLICATION_STRATEGY))
    /\ (Running /\ path \in {"miss", "loadfail"} /\ writable) => outcome = "returned"
    /\ (proc.pc = "done" /\ proc.mode = "list" /\ outcome = "returned") =>
           proc.exit = 0 /\ proc.stderr = <<>>

\* a rebuild over a rejected file followed by a session file
C19_Witness ==
    /\ proc.pc = "done"
    /\ proc.mode = "list"
    /\ path = "miss"
    /\ outcome = "returned"
    /\ Len(files) = 2
    /\ ~files[1].ok
    /\ files[2].ok
    /\ Len(result) = 1
    /\ proc.exit = 0

---------------------------------------------------------------------------
(* SpecFormat: the formatter's pure functions (formatter.py), each applied
   once to an input drawn from a bounded set. *)

MaxText == 6       \* longest text given to truncate_message
MaxBound == 5      \* largest max_length given to truncate_message
MaxColumns == 120  \* widest terminal

\* texts with spaces, tabs and newlines in every position
TruncateTexts == Lists({"a", " ", "\n"}, MaxText)

FormatInput(kind, text, query, n) ==
    [kind |-> kind, text |-> text, query |-> query, n |-> n]

\* truncate_message(input.text, input.n)
ApplyTruncate ==
    /\ op = "none"
    /\ input.kind = "truncate"
    /\ Applied("truncate", truncate_message(input.text, input.n))

\* get_dynamic_column_widths() on a terminal input.n columns wide (0: the
\* size cannot be read); format_list_row passes both widths to
\* truncate_message
ApplyWidths ==
    /\ op = "none"
    /\ input.kind = "widths"
    /\ Applied("widths", get_dynamic_column_widths(input.n))

\* s[a:b] for 0 <= a
Slice(s, a, b) == SubSeq(s, a + 1, IF b < Len(s) THEN b ELSE Len(s))

\* str.find(ch, start): the first index from start on (counted from 0) that
\* holds ch, or -1
Find(s, ch, start) ==
    LET hits == { i \in start..(Len(s) - 1) : s[i + 1] = ch }
    IN  IF hits = {} THEN -1 ELSE Min(hits)

\* the matching loop of highlight_fuzzy_matches (lines 116-123)
RECURSIVE MatchedPositions(_, _, _)
MatchedPositions(text_lower, query_lower, search_pos) ==
    IF query_lower = <<>> THEN [ok |-> TRUE, positions |-> <<>>]
    ELSE LET pos == Find(text_lower, Head(query_lower), search_pos)
         IN  IF pos = -1 THEN [ok |-> FALSE, positions |-> <<>>]
             ELSE LET rest == MatchedPositions(text_lower, Tail(query_lower), pos + 1)
                  IN  [ok |-> rest.ok, positions |-> << pos >> \o rest.positions]

\* the building loop (lines 132-142); text[pos] raises IndexError past the end
RECURSIVE Highlighted(_, _, _)
Highlighted(text, positions, last_pos) ==
    IF positions = <<>>
    THEN [raised |-> FALSE, value |-> Slice(text, last_pos, Len(text))]
    ELSE LET pos == Head(positions)
         IN  IF pos >= Len(text) THEN [raised |-> TRUE, value |-> <<>>]
             ELSE LET rest == Highlighted(text, Tail(positions), pos + 1)
                  IN  IF rest.raised THEN rest
                      ELSE [raised |-> FALSE,
                            value |-> Slice(text, last_pos, pos)
                                      \o << COLOR_RED, COLOR_BOLD, text[pos + 1], COLOR_RESET >>
                                      \o rest.value]

\* highlight_fuzzy_matches: the text returned, or raised
highlight_fuzzy_matches(text, query) ==
    IF query = <<>> \/ text = <<>> THEN [raised |-> FALSE, value |-> text]
    ELSE LET matched == MatchedPositions(Lower(text), Lower(query), 0)
         IN  IF ~matched.ok THEN [raised |-> FALSE, value |-> text]
             ELSE Highlighted(text, matched.positions, 0)

\* len() of a text: an escape code counts with all its characters
\* (ESC [ 3 1 m, ESC [ 1 m, ESC [ 0 m)
RECURSIVE StrLen(_)
StrLen(s) ==
    IF s = <<>> THEN 0
    ELSE (IF Head(s) = COLOR_RED THEN 5
          ELSE IF Head(s) \in {COLOR_BOLD, COLOR_RESET} THEN 4
          ELSE 1) + StrLen(Tail(s))

\* the lines textwrap.wrap makes of words: a word is added to the line while
\* the line stays within width; a word longer than width gets a line of its own
RECURSIVE WrapWords(_, _, _)
WrapWords(words, line, width) ==
    IF words = <<>> THEN (IF line = <<>> THEN <<>> ELSE << line >>)
    ELSE IF line = <<>> THEN WrapWords(Tail(words), Head(words), width)
    ELSE IF StrLen(line) + 1 + StrLen(Head(words)) <= width
    THEN WrapWords(Tail(words), line \o << " " >> \o Head(words), width)
    ELSE << line >> \o WrapWords(Tail(words), Head(words), width)

\* textwrap.wrap(text, width=width, break_long_words=False,
\* break_on_hyphens=False) on a normalized text
textwrap_wrap(text, width) ==
    IF text = <<>> THEN <<>> ELSE WrapWords(Split(text, << " " >>), <<>>, width)

\* wrap_text_preserve_colors
wrap_text_preserve_colors(text, width) ==
    Join(textwrap_wrap(normalize_whitespace(text), width), << "\n" >>)

MaxHighlightText == 4   \* longest text given to highlight_fuzzy_matches
MaxQuery == 2           \* longest query
MaxWrapText == 5        \* longest text given to wrap_text_preserve_colors
MaxWidth == 4           \* widest wrapping target

\* texts in both letter cases, with the capital I with dot above
HighlightTexts == Lists({"a", "A", "b", "U+0130"}, MaxHighlightText)

HighlightQueries == Lists({"a", "B"}, MaxQuery)

\* words of one or two letters between single and repeated spaces
WrapTexts == Lists({"a", "b", " "}, MaxWrapText)

WrapQueries == { << "a" >>, << "a", "b" >> }

FormatInputs ==
    { FormatInput("truncate", t, <<>>, b) : t \in TruncateTexts, b \in 4..MaxBound }
    \cup { FormatInput("widths", <<>>, <<>>, w) : w \in 0..MaxColumns }
    \cup { FormatInput("highlight", t, q, 0) : t \in HighlightTexts, q \in HighlightQueries }
    \cup { FormatInput("wrap", t, q, w) : t \in WrapTexts, q \in WrapQueries, w \in 1..MaxWidth }

InitFormat ==
    /\ input \in FormatInputs
    /\ op = "none"
    /\ output = <<>>
    /\ FsIdle /\ RunIdle /\ RaceIdle /\ CliIdle /\ HistIdle

\* highlight_fuzzy_matches(input.text, input.query)
ApplyHighlight ==
    /\ op = "none"
    /\ input.kind = "highlight"
    /\ Applied("highlight", highlight_fuzzy_matches(input.text, input.query))

\* a message highlighted for the query and wrapped, as format_fzf_preview
\* does with a query (lines 380-383)
ApplyWrap ==
    /\ op = "none"
    /\ input.kind = "wrap"
    /\ LET highlighted == highlight_fuzzy_matches(input.text, input.query)
       IN  Applied("wrap",
               IF highlighted.raised THEN highlighted
               ELSE [raised |-> FALSE,
                     value |-> wrap_text_preserve_colors(highlighted.value, input.n)])

NextFormat ==
    \/ ApplyTruncate
    \/ ApplyWidths
    \/ ApplyHighlight
    \/ ApplyWrap

SpecFormat == InitFormat /\ [][NextFormat]_vars

\* C21: for a bound B >= 4, truncate_message(T, B) has at most B characters;
\* it is the normalized text when that has at most B characters, and otherwise
\* its first B - 3 characters followed by three dots.  Both widths that
\* format_list_row passes to truncate_message are at least 4.
C21_TruncateWithinBound ==
    /\ op = "truncate" =>
           LET normalized == normalize_whitespace(input.text)
           IN  /\ input.n >= 4
               /\ Len(output) <= input.n
               /\ Len(normalized) <= input.n => output = normalized
               /\ Len(normalized) > input.n =>
                      output = SubSeq(normalized, 1, input.n - 3) \o << ".", ".", "." >>
    /\ op = "widths" => output[1] >= 4 /\ output[2] >= 4

\* a text whose normalized form is longer than the bound, and longer than the
\* text the function returned
C21_Witness ==
    /\ op = "truncate"
    /\ Len(normalize_whitespace(input.text)) > input.n
    /\ Len(output) = input.n
    /\ "\n" \in { input.text[i] : i \in 1..Len(input.text) }

\* the space a terminal of that width leaves for the two flexible columns:
\* the width less the safety margin (6), the fixed columns, and the two-space
\* gaps between the five columns (8 + 2)
FlexibleSpace(terminal_width) ==
    terminal_width - 6
        - (PROJECT_COLUMN_WIDTH + PATH_COLUMN_WIDTH + TIME_COLUMN_WIDTH) - 8 - 2

\* C22 (as claimed; the code violates it): for every terminal width the two
\* flexible widths are computed from that width: both are at least the
\* minimum of 5; when the space the width leaves is above the floor of 10 the
\* two widths use exactly that space, the second being the first or one more;
\* otherwise they are the floor.
C22_WidthsComputedFromTerminalWidth ==
    (op = "widths" /\ input.n > 0) =>
        LET space == FlexibleSpace(input.n)
            recent_width == output[1]
            first_width == output[2]
        IN  /\ recent_width >= 5 /\ first_width >= 5
            /\ space > 10 =>
                   /\ recent_width + first_width = space
                   /\ first_width - recent_width \in {0, 1}
            /\ space <= 10 => recent_width + first_width = 10

\* case-insensitive equality of two characters
SameLetter(c, d) == LowerOf(c) = LowerOf(d)

\* the positions (from 1) of the query's characters in the text, each the
\* first occurrence after the previous one
RECURSIVE FirstOccurrences(_, _, _)
FirstOccurrences(text, query, from) ==
    IF query = <<>> THEN [ok |-> TRUE, positions |-> {}]
    ELSE LET hits == { i \in from..Len(text) : SameLetter(text[i], Head(query)) }
         IN  IF hits = {} THEN [ok |-> FALSE, positions |-> {}]
             ELSE LET rest == FirstOccurrences(text, Tail(query), Min(hits) + 1)
                  IN  [ok |-> rest.ok, positions |-> {Min(hits)} \cup rest.positions]

\* the text with the characters at those positions marked
RECURSIVE Marked(_, _, _)
Marked(text, positions, i) ==
    IF i > Len(text) THEN <<>>
    ELSE (IF i \in positions THEN << COLOR_RED, COLOR_BOLD, text[i], COLOR_RESET >>
          ELSE << text[i] >>) \o Marked(text, positions, i + 1)

\* C23 (as claimed; the code violates it): highlight_fuzzy_matches returns
\* the text unchanged when the query's characters are not all found in
\* order, case-insensitively; when they are, it returns the text with exactly
\* the first occurrence of each query character after the previous match
\* marked.
C23_HighlightTotalOrNothing ==
    op = "highlight" =>
        LET found == FirstOccurrences(input.text, input.query, 1)
        IN  /\ ~output.raised
            /\ ~found.ok => output.value = input.text
            /\ found.ok => output.value = Marked(input.text, found.positions, 1)

\* the visible characters of each line of a wrapped text
VisibleLines(wrapped) ==
    LET lines == Split(wrapped, << "\n" >>)
    IN  [i \in 1..Len(lines) |-> StripAnsi(lines[i])]

\* C24 (as claimed; the code violates it): a highlighted text is wrapped by
\* its visible characters: each line has at most the target width of visible
\* characters unless it is a single word, and the lines, without their
\* markup, are those the text without markup wraps into.
C24_WrapByVisibleWidth ==
    (op = "wrap" /\ normalize_whitespace(input.text) # <<>>) =>
        LET lines == VisibleLines(output.value)
        IN  /\ ~output.raised
            /\ \A i \in 1..Len(lines) :
                   Len(lines[i]) <= input.n \/ " " \notin { lines[i][k] : k \in 1..Len(lines[i]) }
            /\ lines = textwrap_wrap(normalize_whitespace(input.text), input.n)

---------------------------------------------------------------------------
(* Boilerplate filter (filters.py) *)

\* the dataclass BoilerplatePattern: its constructor stores the three fields
BoilerplatePattern(pattern_type, pattern, case_sensitive) ==
    [pattern_type |-> pattern_type, pattern |-> pattern,
     case_sensitive |-> case_sensitive]

Caveat == << "c", "a", "v", "e", "a", "t", ":" >>
SessionContinued == << "t", "h", "i", "s", " ", "s", "e", "s", "s", "i", "o", "n", " ", "i", "s", " ", "b", "e", "i", "n", "g", " ", "c", "o", "n", "t", "i", "n", "u", "e", "d" >>
ConversationContinued == << "t", "h", "i", "s", " ", "c", "o", "n", "v", "e", "r", "s", "a", "t", "i", "o", "n", " ", "i", "s", " ", "b", "e", "i", "n", "g", " ", "c", "o", "n", "t", "i", "n", "u", "e", "d" >>
ContinuingFrom == << "c", "o", "n", "t", "i", "n", "u", "i", "n", "g", " ", "f", "r", "o", "m", " ", "p", "r", "e", "v", "i", "o", "u", "s", " ", "s", "e", "s", "s", "i", "o", "n" >>
CommandName == << "<", "c", "o", "m", "m", "a", "n", "d", "-", "n", "a", "m", "e", ">" >>
CommandMessage == << "<", "c", "o", "m", "m", "a", "n", "d", "-", "m", "e", "s", "s", "a", "g", "e", ">" >>
LocalCommand == << "<", "l", "o", "c", "a", "l", "-", "c", "o", "m", "m", "a", "n", "d", "-" >>
OpenSpec == << "<", "!", "-", "-", " ", "O", "P", "E", "N", "S", "P", "E", "C", ":" >>

BOILERPLATE_PATTERNS ==
    << BoilerplatePattern("prefix", Caveat, FALSE),
       BoilerplatePattern("prefix", SessionContinued, FALSE),
       BoilerplatePattern("prefix", ConversationContinued, FALSE),
       BoilerplatePattern("prefix", ContinuingFrom, FALSE),
       BoilerplatePattern("xml_tag", CommandName, TRUE),
       BoilerplatePattern("xml_tag", CommandMessage, TRUE),
       BoilerplatePattern("prefix", LocalCommand, TRUE),
       BoilerplatePattern("comment", OpenSpec, TRUE) >>

\* a plausible slip: the text is matched as given, without strip()
matches_pattern_untrimmed(text, pattern) ==
    LET text_to_check == IF pattern.case_sensitive THEN text ELSE Lower(text)
        pattern_str == IF pattern.case_sensitive THEN pattern.pattern
                       ELSE Lower(pattern.pattern)
    IN  IF pattern.pattern_type \in {"prefix", "comment"}
        THEN IsPrefixOf(pattern_str, text_to_check)
        ELSE IF pattern.pattern_type = "xml_tag"
        THEN Contains(text_to_check, pattern_str)
        ELSE FALSE

\* matches_pattern
matches_pattern(text, pattern) ==
    LET stripped == Strip(text)
        text_to_check == IF pattern.case_sensitive THEN stripped ELSE Lower(stripped)
        pattern_str == IF pattern.case_sensitive THEN pattern.pattern
                       ELSE Lower(pattern.pattern)
    IN  IF pattern.pattern_type = "prefix"
        THEN IsPrefixOf(pattern_str, text_to_check)
        ELSE IF pattern.pattern_type = "xml_tag"
        THEN Contains(text_to_check, pattern_str)
        ELSE IF pattern.pattern_type = "comment"
        THEN IsPrefixOf(pattern_str, text_to_check)
        ELSE FALSE

\* the loop of is_boilerplate over the patterns left
RECURSIVE AnyMatches(_, _)
AnyMatches(text, patterns) ==
    IF patterns = <<>> THEN FALSE
    ELSE IF matches_pattern(text, Head(patterns)) THEN TRUE
    ELSE AnyMatches(text, Tail(patterns))

\* is_boilerplate
is_boilerplate(text) == AnyMatches(text, BOILERPLATE_PATTERNS)

(* SpecFilters: is_boilerplate applied to a text, and a registry entry of
   some kind constructed and matched against a text. *)

UpperChar(c) ==
    IF \E k \in 1..Len(LowerCase) : LowerCase[k] = c
    THEN UpperCase[CHOOSE k \in 1..Len(LowerCase) : LowerCase[k] = c]
    ELSE c

Upper(s) == [i \in 1..Len(s) |-> UpperChar(s[i])]

Interrupted == << "[", "R", "e", "q", "u", "e", "s", "t", " ", "i", "n", "t", "e", "r", "r", "u", "p", "t", "e", "d", " ", "b", "y", " ", "u", "s", "e", "r", "]" >>
NormalMessage == << "N", "o", "r", "m", "a", "l", " ", "u", "s", "e", "r", " ", "m", "e", "s", "s", "a", "g", "e" >>

Literals == { BOILERPLATE_PATTERNS[k].pattern : k \in 1..Len(BOILERPLATE_PATTERNS) }

\* a literal or the banner, in its own letter case, in capitals and in small
\* letters
Cased == UNION { { t, Upper(t), Lower(t) } : t \in Literals \cup { Interrupted } }

\* each alone, followed by more text, and after other text
Cores ==
    Cased
    \cup { t \o << " ", "t", "e", "s", "t" >> : t \in Cased }
    \cup { << "x", " " >> \o t : t \in Cased }
    \cup { <<>>, NormalMessage }

Paddings == { <<>>, << " ", " " >>, << "\n", "\t" >> }

\* the kinds an entry is asked to be constructed with; "regex" is none of
\* the three kinds
PatternTypes == { "prefix", "xml_tag", "comment", "regex" }

FilterInput(kind, text, pattern_type) ==
    [kind |-> kind, text |-> text, pattern_type |-> pattern_type]

FilterInputs ==
    { FilterInput("text", l \o t \o r, "none") :
          l \in Paddings, t \in Cores, r \in Paddings }
    \cup { FilterInput("entry", t, k) :
               t \in { Caveat, << "x", " " >> \o Caveat, NormalMessage }, k \in PatternTypes }

InitFilters ==
    /\ input \in FilterInputs
    /\ op = "none"
    /\ output = <<>>
    /\ FsIdle /\ RunIdle /\ RaceIdle /\ CliIdle /\ HistIdle

\* is_boilerplate(input.text)
ApplyIsBoilerplate ==
    /\ op = "none"
    /\ input.kind = "text"
    /\ Applied("is_boilerplate", is_boilerplate(input.text))

\* BoilerplatePattern(input.pattern_type, "caveat:") and matches_pattern on
\* it; the constructor raises nothing
ApplyEntry ==
    /\ op = "none"
    /\ input.kind = "entry"
    /\ LET pattern == BoilerplatePattern(input.pattern_type, Caveat, FALSE)
       IN  Applied("entry", [constructed |-> TRUE,
                             pattern |-> pattern,
                             matched |-> matches_pattern(input.text, pattern)])

NextFilters ==
    \/ ApplyIsBoilerplate
    \/ ApplyEntry

SpecFilters == InitFilters /\ [][NextFilters]_vars

\* an entry matches a trimmed text by its kind and case sensitivity
EntryMatches(trimmed, entry) ==
    LET text == IF entry.case_sensitive THEN trimmed ELSE Lower(trimmed)
        literal == IF entry.case_sensitive THEN entry.pattern ELSE Lower(entry.pattern)
    IN  \/ /\ entry.pattern_type \in {"prefix", "comment"}
           /\ Len(literal) <= Len(text)
           /\ \A i \in 1..Len(literal) : text[i] = literal[i]
        \/ /\ entry.pattern_type = "xml_tag"
           /\ \E at \in 0..(Len(text) - Len(literal)) :
                  \A i \in 1..Len(literal) : text[at + i] = literal[i]

\* C25: is_boilerplate(text) is true exactly when some entry of the registry,
\* whatever its place in it, matches the text trimmed of leading and trailing
\* whitespace by its kind and case sensitivity; it is false for an empty or
\* all-whitespace text.
C25_BoilerplateIffSomeEntryMatches ==
    op = "is_boilerplate" =>
        /\ output = (\E k \in 1..Len(BOILERPLATE_PATTERNS) :
                         EntryMatches(Strip(input.text), BOILERPLATE_PATTERNS[k]))
        /\ Strip(input.text) = <<>> => output = FALSE

\* a padded text that only a later entry of the registry matches
C25_Witness ==
    /\ op = "is_boilerplate"
    /\ output = TRUE
    /\ input.text # Strip(input.text)
    /\ EntryMatches(Strip(input.text), BOILERPLATE_PATTERNS[5])
    /\ ~EntryMatches(Strip(input.text), BOILERPLATE_PATTERNS[1])

\* C26 (as claimed; the code violates it): the request-interrupted banner,
\* in any letter case, is boilerplate, and so is every text of the other
\* families: the continuation banners in any letter case, and the command
\* tags, local-command prefixes and OPENSPEC comments as written.
C26_NamedFamiliesAreBoilerplate ==
    op = "is_boilerplate" =>
        /\ Lower(Strip(input.text)) = Lower(Interrupted) => output = TRUE
        /\ (\E k \in 1..4 : IsPrefixOf(BOILERPLATE_PATTERNS[k].pattern,
                                       Lower(Strip(input.text)))) => output = TRUE
        /\ (\E k \in 5..8 : IsPrefixOf(BOILERPLATE_PATTERNS[k].pattern,
                                       Strip(input.text))) => output = TRUE

\* C27 (as claimed; the code violates it): an entry whose kind is none of
\* prefix, xml_tag and comment is rejected when it is constructed, so
\* matching never meets such an entry.
C27_UnknownKindRejectedAtConstruction ==
    (op = "entry" /\ input.pattern_type \notin {"prefix", "xml_tag", "comment"}) =>
        ~output.constructed

===========================================================================
